---------------------------- MODULE Spec2Model ----------------------------
(***************************************************************************)
(* A model of the ClaudeMD extension core: the code-mask utility, the      *)
(* document structure extractor, the nesting resolver, the Markdown        *)
(* transformers, the folding providers and the formatter.                  *)
(*                                                                         *)
(* Text is modelled as it is in the program: a line is a sequence of       *)
(* characters (one-character strings; NUL stands for the control character *)
(* \x00 and BT for the backtick), a document is a sequence of lines (the   *)
(* result of text.split(/\r?\n/)).  Regular expressions are data, matched  *)
(* by a backtracking matcher with JavaScript's priority order.             *)
(*                                                                         *)
(* Each call is followed one loop iteration per step.  SpecMask runs the   *)
(* code-mask round trip, SpecParse the two structure extractors, SpecTags  *)
(* the depth resolutions and the folding provider's tag walk,              *)
(* SpecTransform the two Markdown transformers, SpecFold and SpecFence the *)
(* folding providers (SpecFence with convertToMarkdown, on longer          *)
(* documents of fences), SpecRules the depth resolutions around rules,     *)
(* SpecHr the extractors on rule-like lines, SpecBeautify the formatter    *)
(* applied twice, and SpecCalls a sequence of calls on several texts.      *)
(***************************************************************************)
EXTENDS Integers, Sequences, FiniteSets, TLC

(***************************************************************************)
(* Characters and character classes                                        *)
(***************************************************************************)
NUL == "NUL"
BT == "BACKTICK"
Letters == {"a", "b", "h", "k", "t", "v", "x", "C", "O", "D", "E"}
Digits == {"0", "1", "2", "3", "4", "5", "6", "7", "8", "9"}
WS == {" "}
Alphabet ==
    Letters \cup Digits \cup WS \cup
    {"_", "-", "<", ">", "/", BT, "~", "#", "=", "\"", "'", "*", "(", ")", ",", ":", "\\", NUL}
NameStart == Letters \cup {"_"}
NameChar == Letters \cup Digits \cup {"_", "-"}
Not(S) == Alphabet \ S

(***************************************************************************)
(* Regular expressions as data                                             *)
(***************************************************************************)
Ch(S) == [t |-> "set", cs |-> S]
Lit(c) == Ch({c})
Cat(rs) == [t |-> "cat", rs |-> rs]
Alt(rs) == [t |-> "alt", rs |-> rs]
Rep(r, lo, hi, greedy) == [t |-> "rep", r |-> r, lo |-> lo, hi |-> hi, greedy |-> greedy]
Inf == 0 - 1
Star(r) == Rep(r, 0, Inf, TRUE)
Plus(r) == Rep(r, 1, Inf, TRUE)
PlusLazy(r) == Rep(r, 1, Inf, FALSE)
StarLazy(r) == Rep(r, 0, Inf, FALSE)
Opt(r) == Rep(r, 0, 1, TRUE)
AtLeast(r, n) == Rep(r, n, Inf, TRUE)
Grp(n, r) == [t |-> "grp", n |-> n, r |-> r]
Ref(n) == [t |-> "ref", n |-> n]
Bol == [t |-> "bol"]
Eol == [t |-> "eol"]
NotAhead(r) == [t |-> "nla", r |-> r]

Unset == <<0, 0>>
NoCaps == <<Unset, Unset, Unset, Unset>>

(***************************************************************************)
(* Match(r, s, p, c): every way regex r matches s from position p with     *)
(* captures c, in backtracking priority order, as a sequence of            *)
(* [e |-> position after the match, c |-> captures].  The head is the      *)
(* match a JavaScript engine reports.                                      *)
(***************************************************************************)
RECURSIVE Match(_, _, _, _)
RECURSIVE MatchCat(_, _, _, _, _)
RECURSIVE BindCat(_, _, _, _, _)
RECURSIVE MatchAlt(_, _, _, _, _)
RECURSIVE MatchRep(_, _, _, _, _)
RECURSIVE BindRep(_, _, _, _, _, _)

One(p, c) == << [e |-> p, c |-> c] >>

MatchGroup(r, s, p, c) ==
    LET ms == Match(r.r, s, p, c)
    IN  [j \in 1..Len(ms) |->
            [e |-> ms[j].e, c |-> [ms[j].c EXCEPT ![r.n] = <<p, ms[j].e>>]]]

MatchRef(r, s, p, c) ==
    LET g == c[r.n]
        n == g[2] - g[1]
    IN  IF g = Unset THEN One(p, c)
        ELSE IF p + n - 1 <= Len(s) /\ SubSeq(s, p, p + n - 1) = SubSeq(s, g[1], g[2] - 1)
             THEN One(p + n, c)
             ELSE << >>

Match(r, s, p, c) ==
    CASE r.t = "set" -> IF p <= Len(s) /\ s[p] \in r.cs THEN One(p + 1, c) ELSE << >>
      [] r.t = "cat" -> MatchCat(r.rs, 1, s, p, c)
      [] r.t = "alt" -> MatchAlt(r.rs, 1, s, p, c)
      [] r.t = "rep" -> MatchRep(r, 0, s, p, c)
      [] r.t = "grp" -> MatchGroup(r, s, p, c)
      [] r.t = "ref" -> MatchRef(r, s, p, c)
      [] r.t = "bol" -> IF p = 1 THEN One(p, c) ELSE << >>
      [] r.t = "eol" -> IF p = Len(s) + 1 THEN One(p, c) ELSE << >>
      [] r.t = "nla" -> IF Match(r.r, s, p, c) = << >> THEN One(p, c) ELSE << >>

MatchCat(rs, k, s, p, c) ==
    IF k > Len(rs) THEN One(p, c)
    ELSE BindCat(Match(rs[k], s, p, c), 1, rs, k + 1, s)

BindCat(ms, j, rs, k, s) ==
    IF j > Len(ms) THEN << >>
    ELSE MatchCat(rs, k, s, ms[j].e, ms[j].c) \o BindCat(ms, j + 1, rs, k, s)

MatchAlt(rs, k, s, p, c) ==
    IF k > Len(rs) THEN << >>
    ELSE Match(rs[k], s, p, c) \o MatchAlt(rs, k + 1, s, p, c)

MatchRep(r, n, s, p, c) ==
    LET stop == IF n >= r.lo THEN One(p, c) ELSE << >>
        more == IF r.hi # Inf /\ n >= r.hi THEN << >>
                ELSE BindRep(Match(r.r, s, p, c), 1, r, n + 1, s, p)
    IN  IF r.greedy THEN more \o stop ELSE stop \o more

BindRep(ms, j, r, n, s, p) ==
    IF j > Len(ms) THEN << >>
    ELSE (IF ms[j].e > p THEN MatchRep(r, n, s, ms[j].e, ms[j].c) ELSE << >>)
         \o BindRep(ms, j + 1, r, n, s, p)

(***************************************************************************)
(* RegExp.prototype.exec from a start index: the leftmost match at or      *)
(* after `from`.  [found, index, end, c]; a capture is the text it spans,  *)
(* "undefined" being the unset pair.                                       *)
(***************************************************************************)
RECURSIVE ExecFrom(_, _, _)
ExecFrom(re, s, from) ==
    IF from > Len(s) + 1 THEN [found |-> FALSE, index |-> 0, end |-> 0, c |-> NoCaps]
    ELSE LET ms == Match(re, s, from, NoCaps)
         IN  IF ms # << >>
             THEN [found |-> TRUE, index |-> from, end |-> ms[1].e, c |-> ms[1].c]
             ELSE ExecFrom(re, s, from + 1)

Exec(re, s) == ExecFrom(re, s, 1)
Test(re, s) == Exec(re, s).found
Group(s, m, n) == IF m.c[n] = Unset THEN << >> ELSE SubSeq(s, m.c[n][1], m.c[n][2] - 1)
HasGroup(m, n) == m.c[n] # Unset
Matched(s, m) == SubSeq(s, m.index, m.end - 1)

\* Every match of a /g regex, left to right (the exec loop, String.replace).
RECURSIVE ExecAllFrom(_, _, _)
ExecAllFrom(re, s, from) ==
    LET m == ExecFrom(re, s, from)
    IN  IF ~m.found THEN << >>
        ELSE << m >> \o ExecAllFrom(re, s, IF m.end > m.index THEN m.end ELSE m.end + 1)

ExecAll(re, s) == ExecAllFrom(re, s, 1)

(***************************************************************************)
(* Code-mask utility                                                       *)
(***************************************************************************)
DigitChar == <<"0", "1", "2", "3", "4", "5", "6", "7", "8", "9">>

\* Number.prototype.toString: the decimal digits of n >= 0.
RECURSIVE ToDigits(_)
ToDigits(n) ==
    IF n < 10 THEN << DigitChar[n + 1] >>
    ELSE ToDigits(n \div 10) \o << DigitChar[(n % 10) + 1] >>

DigitValue(d) == CHOOSE n \in 0..9 : DigitChar[n + 1] = d

\* parseInt of a run of decimal digits.
RECURSIVE ParseInt(_)
ParseInt(ds) ==
    IF ds = << >> THEN 0
    ELSE 10 * ParseInt(SubSeq(ds, 1, Len(ds) - 1)) + DigitValue(ds[Len(ds)])

\* `\x00CODE${index}\x00`
Placeholder(index) == <<NUL, "C", "O", "D", "E">> \o ToDigits(index) \o <<NUL>>

Backtick == Lit(BT)
\* /(`{2,})([^`]+?)\1/g
multiBacktickRegex ==
    Cat(<< Grp(1, AtLeast(Backtick, 2)), Grp(2, PlusLazy(Ch(Not({BT})))), Ref(1) >>)
\* /`([^`]+)`/g
singleBacktickRegex ==
    Cat(<< Backtick, Grp(1, Plus(Ch(Not({BT})))), Backtick >>)
\* /\x00CODE(\d+)\x00/g
placeholderRegex ==
    Cat(<< Lit(NUL), Lit("C"), Lit("O"), Lit("D"), Lit("E"), Grp(1, Plus(Ch(Digits))), Lit(NUL) >>)

\* text.replace(re, match => { index = codeBlocks.length; codeBlocks.push(match);
\* return placeholder }) over the matches ms of re in text, from match j on.
RECURSIVE MaskMatches(_, _, _, _, _)
MaskMatches(text, ms, j, from, codeBlocks) ==
    IF j > Len(ms)
    THEN [masked |-> SubSeq(text, from, Len(text)), codeBlocks |-> codeBlocks]
    ELSE LET rest == MaskMatches(text, ms, j + 1, ms[j].end,
                                 Append(codeBlocks, Matched(text, ms[j])))
         IN  [masked |-> SubSeq(text, from, ms[j].index - 1)
                         \o Placeholder(Len(codeBlocks)) \o rest.masked,
              codeBlocks |-> rest.codeBlocks]

MaskWith(re, text, codeBlocks) == MaskMatches(text, ExecAll(re, text), 1, 1, codeBlocks)

maskCodeContent(text) ==
    LET multi == MaskWith(multiBacktickRegex, text, << >>)
    IN  MaskWith(singleBacktickRegex, multi.masked, multi.codeBlocks)

Undefined == <<"u", "n", "d", "e", "f", "i", "n", "e", "d">>

\* text.replace(/\x00CODE(\d+)\x00/g, (_, index) => codeBlocks[parseInt(index)])
RECURSIVE UnmaskMatches(_, _, _, _, _)
UnmaskMatches(text, ms, j, from, codeBlocks) ==
    IF j > Len(ms) THEN SubSeq(text, from, Len(text))
    ELSE LET index == ParseInt(Group(text, ms[j], 1))
             block == IF index + 1 <= Len(codeBlocks) THEN codeBlocks[index + 1] ELSE Undefined
         IN  SubSeq(text, from, ms[j].index - 1) \o block
             \o UnmaskMatches(text, ms, j + 1, ms[j].end, codeBlocks)

unmaskCodeContent(text, codeBlocks) ==
    UnmaskMatches(text, ExecAll(placeholderRegex, text), 1, 1, codeBlocks)

(***************************************************************************)
(* String helpers                                                          *)
(***************************************************************************)
RECURSIVE LeadingWS(_)
LeadingWS(s) == IF s # << >> /\ Head(s) \in WS THEN 1 + LeadingWS(Tail(s)) ELSE 0

RECURSIVE TrailingWS(_)
TrailingWS(s) ==
    IF s # << >> /\ s[Len(s)] \in WS THEN 1 + TrailingWS(SubSeq(s, 1, Len(s) - 1)) ELSE 0

TrimStart(s) == SubSeq(s, LeadingWS(s) + 1, Len(s))
Trim(s) == LET t == TrimStart(s) IN SubSeq(t, 1, Len(t) - TrailingWS(t))
Repeat(c, n) == [j \in 1..n |-> c]

\* s.replace(/_/g, '\\_')
RECURSIVE EscapeUnderscore(_)
EscapeUnderscore(s) ==
    IF s = << >> THEN << >>
    ELSE (IF Head(s) = "_" THEN <<"\\", "_">> ELSE << Head(s) >>) \o EscapeUnderscore(Tail(s))

\* s.replace(re, '') for a /g regex.
RECURSIVE DeleteMatches(_, _, _, _)
DeleteMatches(s, ms, j, from) ==
    IF j > Len(ms) THEN SubSeq(s, from, Len(s))
    ELSE SubSeq(s, from, ms[j].index - 1) \o DeleteMatches(s, ms, j + 1, ms[j].end)

\* s.replace(re, m => ' '.repeat(m.length)) for a /g regex.
RECURSIVE BlankMatches(_, _, _, _)
BlankMatches(s, ms, j, from) ==
    IF j > Len(ms) THEN SubSeq(s, from, Len(s))
    ELSE SubSeq(s, from, ms[j].index - 1) \o Repeat(" ", ms[j].end - ms[j].index)
         \o BlankMatches(s, ms, j + 1, ms[j].end)

(***************************************************************************)
(* The regular expressions of the structure extractor                      *)
(***************************************************************************)
DQ == "\""
SQ == "'"
Space == Ch(WS)
TagName == Cat(<< Ch(NameStart), Star(Ch(NameChar)) >>)
\* (\s+[^>]*)?  as capture group 2
AttrPart == Opt(Grp(2, Cat(<< Plus(Space), Star(Ch(Not({">"}))) >>)))

\* A fence pattern that takes only a line with nothing after the run.
codeBlockRegex_Bare ==
    Cat(<< Bol, Grp(1, Star(Space)),
           Grp(2, Alt(<< AtLeast(Backtick, 3), AtLeast(Lit("~"), 3) >>)), Star(Space), Eol >>)
\* /^(\s*)(`{3,}|~{3,})/
codeBlockRegex ==
    Cat(<< Bol, Grp(1, Star(Space)),
           Grp(2, Alt(<< AtLeast(Backtick, 3), AtLeast(Lit("~"), 3) >>)) >>)
\* /^(#{1,6})\s+(.+?)\s*$/
headerRegex ==
    Cat(<< Bol, Grp(1, Rep(Lit("#"), 1, 6, TRUE)), Plus(Space),
           Grp(2, PlusLazy(Ch(Alphabet))), Star(Space), Eol >>)
\* /^\s*([-*_]){3,}\s*$/
horizontalRuleRegex ==
    Cat(<< Bol, Star(Space), AtLeast(Grp(1, Ch({"-", "*", "_"})), 3), Star(Space), Eol >>)
\* /<([a-zA-Z_][a-zA-Z0-9_-]*)(\s+[^>]*)?\s*>/g
xmlOpeningTagRegex ==
    Cat(<< Lit("<"), Grp(1, TagName), AttrPart, Star(Space), Lit(">") >>)
\* /<\/([a-zA-Z_][a-zA-Z0-9_-]*)>/g
xmlClosingTagRegex ==
    Cat(<< Lit("<"), Lit("/"), Grp(1, TagName), Lit(">") >>)
\* /<([a-zA-Z_][a-zA-Z0-9_-]*)(\s+[^>]*)?\s*\/>/g
xmlSelfClosingRegex ==
    Cat(<< Lit("<"), Grp(1, TagName), AttrPart, Star(Space), Lit("/"), Lit(">") >>)
\* /([a-zA-Z_][a-zA-Z0-9_-]*)\s*=\s*(?:"([^"]*)"|'([^']*)'|([^\s>]+))/g
attrRegex ==
    Cat(<< Grp(1, TagName), Star(Space), Lit("="), Star(Space),
           Alt(<< Cat(<< Lit(DQ), Grp(2, Star(Ch(Not({DQ})))), Lit(DQ) >>),
                  Cat(<< Lit(SQ), Grp(3, Star(Ch(Not({SQ})))), Lit(SQ) >>),
                  Grp(4, Plus(Ch(Not(WS \cup {">"})))) >>) >>)

(***************************************************************************)
(* parseAttributes: a Map<string, string> is a sequence of [key, value]    *)
(* in insertion order; set() on a present key replaces its value in place. *)
(***************************************************************************)
MapHas(m, key) == \E j \in 1..Len(m) : m[j].key = key
MapSet(m, key, value) ==
    IF MapHas(m, key)
    THEN [j \in 1..Len(m) |-> IF m[j].key = key THEN [key |-> key, value |-> value] ELSE m[j]]
    ELSE Append(m, [key |-> key, value |-> value])

\* match[2] || match[3] || match[4] || ''
AttrValue(s, m) ==
    IF Group(s, m, 2) # << >> THEN Group(s, m, 2)
    ELSE IF Group(s, m, 3) # << >> THEN Group(s, m, 3)
    ELSE Group(s, m, 4)

RECURSIVE SetAttributes(_, _, _, _)
SetAttributes(attrString, ms, j, attributes) ==
    IF j > Len(ms) THEN attributes
    ELSE SetAttributes(attrString, ms, j + 1,
                       MapSet(attributes, Group(attrString, ms[j], 1), AttrValue(attrString, ms[j])))

parseAttributes(attrString) ==
    SetAttributes(attrString, ExecAll(attrRegex, attrString), 1, << >>)

(***************************************************************************)
(* parseDocumentText (part_000): the structure extractor                   *)
(***************************************************************************)
XmlTag(name, ln, indent, kind, attributes, m) ==
    [name |-> name, line |-> ln, indent |-> indent,
     isOpening |-> kind = "opening", isClosing |-> kind = "closing",
     isSelfClosing |-> kind = "selfClosing",
     attributes |-> attributes, startIndex |-> m.index - 1, endIndex |-> m.end - 1]

\* One exec loop: a tag per match of re in s.
TagsOf(re, s, ln, indent, kind) ==
    LET ms == ExecAll(re, s)
    IN  [j \in 1..Len(ms) |->
            XmlTag(Group(s, ms[j], 1), ln, indent, kind,
                   IF kind = "closing" THEN << >> ELSE parseAttributes(Group(s, ms[j], 2)),
                   ms[j])]

\* The tags of one line outside code blocks: self-closing, then closing, then
\* opening tags, the latter on the text with self-closing tags blanked out.
LineTagsOfMasked(masked, ln, indent) ==
    LET maskedWithoutSelfClosing ==
            BlankMatches(masked, ExecAll(xmlSelfClosingRegex, masked), 1, 1)
    IN  TagsOf(xmlSelfClosingRegex, masked, ln, indent, "selfClosing")
        \o TagsOf(xmlClosingTagRegex, masked, ln, indent, "closing")
        \o TagsOf(xmlOpeningTagRegex, maskedWithoutSelfClosing, ln, indent, "opening")

LineTags(ln_text, ln) ==
    LineTagsOfMasked(maskCodeContent(ln_text).masked, ln, LeadingWS(ln_text))

LineHeaders(ln_text, ln) ==
    LET m == Exec(headerRegex, ln_text)
    IN  IF m.found
        THEN << [level |-> Len(Group(ln_text, m, 1)), line |-> ln, text |-> Group(ln_text, m, 2)] >>
        ELSE << >>

NewParse ==
    [i |-> 0, inCodeBlock |-> FALSE, xmlTags |-> << >>, headers |-> << >>,
     horizontalRules |-> << >>]

\* ParseLineStep without the in-block skip: lines inside a block are classified.
ParseLineStep_NoSkip(st, lines) ==
    LET ln_text == lines[st.i + 1]
        next == [st EXCEPT !.i = st.i + 1]
    IN  IF Test(codeBlockRegex, ln_text)
        THEN [next EXCEPT !.inCodeBlock = ~st.inCodeBlock]
        ELSE IF Test(horizontalRuleRegex, ln_text)
        THEN [next EXCEPT !.horizontalRules = Append(@, st.i)]
        ELSE [next EXCEPT !.headers = @ \o LineHeaders(ln_text, st.i),
                          !.xmlTags = @ \o LineTags(ln_text, st.i)]

\* One iteration of the loop over lines, at index st.i (lines are numbered from 0).
ParseLineStep(st, lines) ==
    LET ln_text == lines[st.i + 1]
        next == [st EXCEPT !.i = st.i + 1]
    IN  IF Test(codeBlockRegex, ln_text)
        THEN [next EXCEPT !.inCodeBlock = ~st.inCodeBlock]
        ELSE IF st.inCodeBlock THEN next
        ELSE IF Test(horizontalRuleRegex, ln_text)
        THEN [next EXCEPT !.horizontalRules = Append(@, st.i)]
        ELSE [next EXCEPT !.headers = @ \o LineHeaders(ln_text, st.i),
                          !.xmlTags = @ \o LineTags(ln_text, st.i)]

RECURSIVE ParseLoop(_, _)
ParseLoop(st, lines) ==
    IF st.i >= Len(lines) THEN st ELSE ParseLoop(ParseLineStep(st, lines), lines)

Structure(st) ==
    [xmlTags |-> st.xmlTags, headers |-> st.headers, horizontalRules |-> st.horizontalRules]

parseDocumentText(lines) == Structure(ParseLoop(NewParse, lines))

(***************************************************************************)
(* convertToMarkdown (part_000): tag depth resolution                      *)
(***************************************************************************)
Max(S) == CHOOSE x \in S : \A y \in S : y <= x
Least(S) == CHOOSE x \in S : \A y \in S : x <= y
Min2(a, b) == IF a < b THEN a ELSE b
Max2(a, b) == IF a > b THEN a ELSE b
Splice(seq, j) == SubSeq(seq, 1, j - 1) \o SubSeq(seq, j + 1, Len(seq))
\* Map.set on a Map keyed by line number, as a function.
Put(m, key, value) == (key :> value) @@ m
Has(m, key) == key \in DOMAIN m
EmptyMap == << >>

\* The index of the entry nearest the top of the stack with this name, or 0.
NearestMatch(tagStack, name) ==
    LET S == {j \in 1..Len(tagStack) : tagStack[j].name = name}
    IN  IF S = {} THEN 0 ELSE Max(S)

\* ResetAtRules without the test against the top of the stack: any rule above
\* the tag resets.
RECURSIVE ResetAtRules_AnyRule(_, _, _, _)
ResetAtRules_AnyRule(hrLines, j, tag, st) ==
    IF j > Len(hrLines) THEN st
    ELSE ResetAtRules_AnyRule(hrLines, j + 1, tag,
            IF hrLines[j] < tag.line
            THEN [st EXCEPT !.currentDepth = 0, !.tagStack = << >>]
            ELSE st)

\* ResetAtRules that resets only when no tag is open: a rule inside the body of
\* an open tag forces no reset.
RECURSIVE ResetAtRules_TopLevelOnly(_, _, _, _)
ResetAtRules_TopLevelOnly(hrLines, j, tag, st) ==
    IF j > Len(hrLines) THEN st
    ELSE ResetAtRules_TopLevelOnly(hrLines, j + 1, tag,
            IF hrLines[j] < tag.line /\ Len(st.tagStack) = 0
            THEN [st EXCEPT !.currentDepth = 0, !.tagStack = << >>]
            ELSE st)

\* ResetAtRules that sets currentDepth to 0 and leaves the stack as it is.
RECURSIVE ResetAtRules_DepthOnly(_, _, _, _)
ResetAtRules_DepthOnly(hrLines, j, tag, st) ==
    IF j > Len(hrLines) THEN st
    ELSE ResetAtRules_DepthOnly(hrLines, j + 1, tag,
            IF /\ hrLines[j] < tag.line
               /\ (Len(st.tagStack) = 0 \/ hrLines[j] > st.tagStack[Len(st.tagStack)].line)
            THEN [st EXCEPT !.currentDepth = 0]
            ELSE st)

\* ResetAtRules that empties the stack and keeps the depth.
RECURSIVE ResetAtRules_StackOnly(_, _, _, _)
ResetAtRules_StackOnly(hrLines, j, tag, st) ==
    IF j > Len(hrLines) THEN st
    ELSE ResetAtRules_StackOnly(hrLines, j + 1, tag,
            IF /\ hrLines[j] < tag.line
               /\ (Len(st.tagStack) = 0 \/ hrLines[j] > st.tagStack[Len(st.tagStack)].line)
            THEN [st EXCEPT !.tagStack = << >>]
            ELSE st)

\* for (const hrLine of hrLines) { if (hrLine < tag.line && (tagStack.length === 0
\*     || hrLine > tagStack[tagStack.length - 1].line)) { currentDepth = 0; tagStack.length = 0 } }
RECURSIVE ResetAtRules(_, _, _, _)
ResetAtRules(hrLines, j, tag, st) ==
    IF j > Len(hrLines) THEN st
    ELSE ResetAtRules(hrLines, j + 1, tag,
            IF /\ hrLines[j] < tag.line
               /\ (Len(st.tagStack) = 0 \/ hrLines[j] > st.tagStack[Len(st.tagStack)].line)
            THEN [st EXCEPT !.currentDepth = 0, !.tagStack = << >>]
            ELSE st)

\* An opening tag: record the depth of its line, push it, one level deeper.
OpenTag(st, tag) ==
    [st EXCEPT !.tagDepthMap = Put(@, tag.line, st.currentDepth),
               !.tagInfoMap = Put(@, tag.line, [name |-> tag.name, attributes |-> tag.attributes]),
               !.tagStack = Append(@, [name |-> tag.name, line |-> tag.line]),
               !.currentDepth = @ + 1]

\* CloseTag with the decrement outside the match test and without Math.max.
CloseTag_Unguarded(st, tag) ==
    LET j == NearestMatch(st.tagStack, tag.name)
        ended == [st EXCEPT !.tagEndLines = @ \cup {tag.line}, !.currentDepth = @ - 1]
    IN  IF j = 0 THEN ended ELSE [ended EXCEPT !.tagStack = Splice(@, j)]

\* CloseTag that records the line of a closing tag only when an entry matches.
CloseTag_MatchedOnly(st, tag) ==
    LET j == NearestMatch(st.tagStack, tag.name)
    IN  IF j = 0 THEN st
        ELSE [st EXCEPT !.tagEndLines = @ \cup {tag.line},
                        !.tagStack = Splice(@, j),
                        !.currentDepth = Max2(0, @ - 1)]

\* CloseTag that pops the stack down through the matching entry.
CloseTag_PopThrough(st, tag) ==
    LET j == NearestMatch(st.tagStack, tag.name)
        ended == [st EXCEPT !.tagEndLines = @ \cup {tag.line}]
    IN  IF j = 0 THEN ended
        ELSE [ended EXCEPT !.tagStack = SubSeq(@, 1, j - 1),
                           !.currentDepth = Max2(0, @ - 1)]

\* A closing tag: its line ends a section; the nearest entry of its name leaves
\* the stack and the depth goes down by one, not below 0.
CloseTag(st, tag) ==
    LET j == NearestMatch(st.tagStack, tag.name)
        ended == [st EXCEPT !.tagEndLines = @ \cup {tag.line}]
    IN  IF j = 0 THEN ended
        ELSE [ended EXCEPT !.tagStack = Splice(@, j),
                           !.currentDepth = Max2(0, @ - 1)]

\* A self-closing tag: record the depth of its line.
SelfClosingTag(st, tag) ==
    [st EXCEPT !.tagDepthMap = Put(@, tag.line, st.currentDepth),
               !.tagInfoMap = Put(@, tag.line, [name |-> tag.name, attributes |-> tag.attributes])]

\* One iteration of the loop over structure.xmlTags, at tag st.k + 1.
ResolveTagStep(st) ==
    LET tag == st.structure.xmlTags[st.k + 1]
        reset == ResetAtRules(st.structure.horizontalRules, 1, tag, st)
        next == [reset EXCEPT !.k = st.k + 1]
    IN  IF tag.isOpening THEN OpenTag(next, tag)
        ELSE IF tag.isClosing THEN CloseTag(next, tag)
        ELSE IF tag.isSelfClosing THEN SelfClosingTag(next, tag)
        ELSE next

(***************************************************************************)
(* convertToMarkdown (part_000): line rewriting                            *)
(***************************************************************************)
\* /^(\s*)(`{3,}|~{3,})(.*)$/
convertCodeBlockRegex ==
    Cat(<< Bol, Grp(1, Star(Space)),
           Grp(2, Alt(<< AtLeast(Backtick, 3), AtLeast(Lit("~"), 3) >>)),
           Grp(3, Star(Ch(Alphabet))), Eol >>)
\* /<\/?[a-zA-Z_][a-zA-Z0-9_-]*(?:\s+[^>]*)?>/g
strayTagRegex ==
    Cat(<< Lit("<"), Opt(Lit("/")), TagName,
           Opt(Cat(<< Plus(Space), Star(Ch(Not({">"}))) >>)), Lit(">") >>)
\* new RegExp(`<${tagInfo.name}(?:\\s+[^>]*)?>\\s*(.*)$`)
tagPattern(name) ==
    Cat(<< Lit("<") >> \o [j \in 1..Len(name) |-> Lit(name[j])]
        \o << Opt(Cat(<< Plus(Space), Star(Ch(Not({">"}))) >>)), Lit(">"),
              Star(Space), Grp(1, Star(Ch(Alphabet))), Eol >>)

\* HeaderLevel without the clamp at 6.
HeaderLevel_Unclamped(depth) == depth + 2

\* Math.min(depth + 2, 6)
HeaderLevel(depth) == Min2(depth + 2, 6)

\* `${escapedKey}="${value}"` joined by ', '
RECURSIVE JoinAttrs(_, _)
JoinAttrs(attributes, j) ==
    IF j > Len(attributes) THEN << >>
    ELSE (IF j > 1 THEN <<",", " ">> ELSE << >>)
         \o EscapeUnderscore(attributes[j].key) \o <<"=", DQ>> \o attributes[j].value \o << DQ >>
         \o JoinAttrs(attributes, j + 1)

AttrString(attributes) ==
    IF Len(attributes) > 0 THEN <<" ", "(">> \o JoinAttrs(attributes, 1) \o <<")">> ELSE << >>

\* `${headerPrefix} ${escapedName}${attrString}`
TagHeader(depth, tagInfo) ==
    Repeat("#", HeaderLevel(depth)) \o <<" ">> \o EscapeUnderscore(tagInfo.name)
    \o AttrString(tagInfo.attributes)

\* The lines pushed for a line that has an entry in tagDepthMap.
TagLineOutput(ln_text, depth, tagInfo) ==
    LET contentMatch == Exec(tagPattern(tagInfo.name), ln_text)
        content == Trim(Group(ln_text, contentMatch, 1))
    IN  << TagHeader(depth, tagInfo), << >> >>
        \o (IF contentMatch.found /\ content # << >> THEN << content >> ELSE << >>)

\* The lines pushed for a regular content line.
ContentLineOutput(ln_text) ==
    LET mk == maskCodeContent(ln_text)
        stripped == DeleteMatches(mk.masked, ExecAll(strayTagRegex, mk.masked), 1, 1)
        processed == unmaskCodeContent(stripped, mk.codeBlocks)
    IN  IF Trim(processed) # << >> \/ Trim(ln_text) = << >> THEN << processed >> ELSE << >>

\* RewriteLineStep without the in-block passthrough: lines inside a block are
\* rewritten like any other line.
RewriteLineStep_Rewritten(st, lines) ==
    LET ln_text == lines[st.i + 1]
        next == [st EXCEPT !.i = st.i + 1]
    IN  IF Test(convertCodeBlockRegex, ln_text)
        THEN [next EXCEPT !.inCodeBlock = ~st.inCodeBlock, !.result = Append(@, ln_text)]
        ELSE IF st.i \in st.tagEndLines THEN [next EXCEPT !.result = Append(@, << >>)]
        ELSE IF Has(st.tagDepthMap, st.i)
        THEN [next EXCEPT !.result =
                @ \o TagLineOutput(ln_text, st.tagDepthMap[st.i], st.tagInfoMap[st.i])]
        ELSE [next EXCEPT !.result = @ \o ContentLineOutput(ln_text)]

\* One iteration of the loop over lines, at index st.i.
RewriteLineStep(st, lines) ==
    LET ln_text == lines[st.i + 1]
        next == [st EXCEPT !.i = st.i + 1]
    IN  IF Test(convertCodeBlockRegex, ln_text)
        THEN [next EXCEPT !.inCodeBlock = ~st.inCodeBlock, !.result = Append(@, ln_text)]
        ELSE IF st.inCodeBlock THEN [next EXCEPT !.result = Append(@, ln_text)]
        ELSE IF st.i \in st.tagEndLines THEN [next EXCEPT !.result = Append(@, << >>)]
        ELSE IF Has(st.tagDepthMap, st.i)
        THEN [next EXCEPT !.result =
                @ \o TagLineOutput(ln_text, st.tagDepthMap[st.i], st.tagInfoMap[st.i])]
        ELSE [next EXCEPT !.result = @ \o ContentLineOutput(ln_text)]

NoStructure == [xmlTags |-> << >>, headers |-> << >>, horizontalRules |-> << >>]

NewConvert ==
    [structure |-> NoStructure, tagDepthMap |-> EmptyMap, tagInfoMap |-> EmptyMap,
     tagEndLines |-> {}, currentDepth |-> 0, tagStack |-> << >>, k |-> 0,
     i |-> 0, inCodeBlock |-> FALSE, result |-> << >>]

(***************************************************************************)
(* ClaudeMdFoldingRangeProvider.provideFoldingRanges (part_000, first      *)
(* variant): the walk over the tags                                        *)
(***************************************************************************)
FoldOpenTag(st, tag) ==
    [st EXCEPT !.tagStack = Append(@, [name |-> tag.name, line |-> tag.line])]

\* FoldCloseTag that pops the top of the stack when no entry has the name.
FoldCloseTag_PopTop(st, tag) ==
    LET j == IF NearestMatch(st.tagStack, tag.name) = 0 THEN Len(st.tagStack)
             ELSE NearestMatch(st.tagStack, tag.name)
    IN  IF j = 0 THEN st
        ELSE [st EXCEPT
                !.ranges = IF tag.line > st.tagStack[j].line
                           THEN Append(@, [start |-> st.tagStack[j].line, end |-> tag.line])
                           ELSE @,
                !.tagStack = Splice(@, j)]

\* FoldCloseTag that gives no range to a pair with a recorded rule between.
FoldCloseTag_AtRules(st, tag) ==
    LET j == NearestMatch(st.tagStack, tag.name)
        hr == st.structure.horizontalRules
    IN  IF j = 0 THEN st
        ELSE [st EXCEPT
                !.ranges = IF /\ tag.line > st.tagStack[j].line
                              /\ ~\E r \in 1..Len(hr) :
                                     st.tagStack[j].line < hr[r] /\ hr[r] < tag.line
                           THEN Append(@, [start |-> st.tagStack[j].line, end |-> tag.line])
                           ELSE @,
                !.tagStack = Splice(@, j)]

FoldCloseTag(st, tag) ==
    LET j == NearestMatch(st.tagStack, tag.name)
    IN  IF j = 0 THEN st
        ELSE [st EXCEPT
                !.ranges = IF tag.line > st.tagStack[j].line
                           THEN Append(@, [start |-> st.tagStack[j].line, end |-> tag.line])
                           ELSE @,
                !.tagStack = Splice(@, j)]

FoldTagStep(st) ==
    LET tag == st.structure.xmlTags[st.k + 1]
        next == [st EXCEPT !.k = st.k + 1]
    IN  IF tag.isOpening THEN FoldOpenTag(next, tag)
        ELSE IF tag.isClosing THEN FoldCloseTag(next, tag)
        ELSE next

(***************************************************************************)
(* provideFoldingRanges (first variant): the headers, then the code blocks *)
(***************************************************************************)
\* [...structure.headers].sort((a, b) => a.line - b.line): a stable sort by line.
RECURSIVE SortByLine(_)
SortByLine(hs) ==
    IF Len(hs) <= 1 THEN hs
    ELSE LET rest == SortByLine(Tail(hs))
             first == Head(hs)
             before == SelectSeq(rest, LAMBDA x : x.line < first.line)
             after == SelectSeq(rest, LAMBDA x : x.line >= first.line)
         IN  before \o << first >> \o after

\* The while loop popping the headers of the same or a deeper level than the
\* current one; each popped header gets a range ending at endLine.
RECURSIVE PopHeaders(_, _, _)
PopHeaders(st, level, endLine) ==
    IF Len(st.headerStack) > 0 /\ st.headerStack[Len(st.headerStack)].level >= level
    THEN LET popped == st.headerStack[Len(st.headerStack)]
         IN  PopHeaders([st EXCEPT
                            !.headerStack = SubSeq(@, 1, Len(@) - 1),
                            !.ranges = IF endLine > popped.line
                                       THEN Append(@, [start |-> popped.line, end |-> endLine])
                                       ELSE @],
                        level, endLine)
    ELSE st

\* PopHeaders that pushes the range of a popped header without the test on endLine.
FoldHeaderStep_Unguarded(st, lineCount) ==
    LET sortedHeaders == SortByLine(st.structure.headers)
        current == sortedHeaders[st.h + 1]
        last == st.h + 1 = Len(sortedHeaders)
        RECURSIVE Pop(_, _, _)
        Pop(s, level, endLine) ==
            IF Len(s.headerStack) > 0 /\ s.headerStack[Len(s.headerStack)].level >= level
            THEN LET popped == s.headerStack[Len(s.headerStack)]
                 IN  Pop([s EXCEPT
                             !.headerStack = SubSeq(@, 1, Len(@) - 1),
                             !.ranges = Append(@, [start |-> popped.line, end |-> endLine])],
                         level, endLine)
            ELSE s
        pushed == [Pop(st, current.level, current.line - 1) EXCEPT
                      !.headerStack = Append(@, [level |-> current.level, line |-> current.line]),
                      !.h = st.h + 1]
    IN  IF last THEN Pop(pushed, 0, lineCount - 1) ELSE pushed

\* One iteration of the loop over sortedHeaders, at index st.h.
FoldHeaderStep(st, lineCount) ==
    LET sortedHeaders == SortByLine(st.structure.headers)
        current == sortedHeaders[st.h + 1]
        last == st.h + 1 = Len(sortedHeaders)
        pushed == [PopHeaders(st, current.level, current.line - 1) EXCEPT
                      !.headerStack = Append(@, [level |-> current.level, line |-> current.line]),
                      !.h = st.h + 1]
    IN  IF last THEN PopHeaders(pushed, 0, lineCount - 1) ELSE pushed

\* codeBlockStart === null
Null == 0 - 1

\* /^(\s*)(`{3,}|~{3,})/ of the loop over the lines
foldCodeBlockRegex ==
    Cat(<< Bol, Grp(1, Star(Space)),
           Grp(2, Alt(<< AtLeast(Backtick, 3), AtLeast(Lit("~"), 3) >>)) >>)

\* One iteration of the loop over the lines, at index st.i.
FoldCodeLineStep(st, lines) ==
    LET next == [st EXCEPT !.i = st.i + 1]
    IN  IF Test(foldCodeBlockRegex, lines[st.i + 1])
        THEN IF st.codeBlockStart = Null
             THEN [next EXCEPT !.codeBlockStart = st.i]
             ELSE [next EXCEPT
                     !.ranges = IF st.i > st.codeBlockStart
                                THEN Append(@, [start |-> st.codeBlockStart, end |-> st.i])
                                ELSE @,
                     !.codeBlockStart = Null]
        ELSE next

NewFold ==
    [structure |-> NoStructure, ranges |-> << >>, tagStack |-> << >>, k |-> 0,
     headerStack |-> << >>, h |-> 0, codeBlockStart |-> Null, i |-> 0]

(***************************************************************************)
(* ClaudeMdFoldingRangeProvider.provideFoldingRanges (part_000, third      *)
(* variant): one loop over the lines                                       *)
(***************************************************************************)
\* /^(\s*)(`{3,}|~{3,})\s*$/
fold3ClosingFenceRegex ==
    Cat(<< Bol, Grp(1, Star(Space)),
           Grp(2, Alt(<< AtLeast(Backtick, 3), AtLeast(Lit("~"), 3) >>)),
           Star(Space), Eol >>)
\* /<([a-zA-Z_][a-zA-Z0-9_-]*)(\s+[^>]*)?>(?!.*<\/\1>)/
fold3OpenRegex ==
    Cat(<< Lit("<"), Grp(1, TagName), AttrPart, Lit(">"),
           NotAhead(Cat(<< Star(Ch(Alphabet)), Lit("<"), Lit("/"), Ref(1), Lit(">") >>)) >>)
\* /<\/([a-zA-Z_][a-zA-Z0-9_-]*)>/
fold3CloseRegex == Cat(<< Lit("<"), Lit("/"), Grp(1, TagName), Lit(">") >>)
\* /^(#{1,6})\s+/
fold3HeaderRegex == Cat(<< Bol, Grp(1, Rep(Lit("#"), 1, 6, TRUE)), Plus(Space) >>)

\* The fence branch: an opening fence searches forward for the end of the block.
Fold3Fence(st, lines) ==
    LET i == st.i
        J == {j \in (i + 1)..(Len(lines) - 1) : Test(fold3ClosingFenceRegex, lines[j + 1])}
    IN  IF st.inCodeBlock THEN [st EXCEPT !.i = i + 1]
        ELSE IF J = {} THEN [st EXCEPT !.inCodeBlock = TRUE, !.i = i + 1]
        ELSE LET j == Least(J)
             IN  [st EXCEPT !.ranges = Append(@, [start |-> i, end |-> j]),
                            !.inCodeBlock = FALSE,
                            !.i = j + 1]

Fold3Open(st, ln_text) ==
    LET openMatch == Exec(fold3OpenRegex, ln_text)
    IN  IF openMatch.found
        THEN [st EXCEPT !.tagStack =
                 Append(@, [name |-> Group(ln_text, openMatch, 1), line |-> st.i])]
        ELSE st

Fold3Close(st, ln_text) ==
    LET closeMatch == Exec(fold3CloseRegex, ln_text)
        j == IF closeMatch.found
             THEN NearestMatch(st.tagStack, Group(ln_text, closeMatch, 1))
             ELSE 0
    IN  IF j = 0 THEN st
        ELSE [st EXCEPT
                !.ranges = IF st.i > st.tagStack[j].line
                           THEN Append(@, [start |-> st.tagStack[j].line, end |-> st.i])
                           ELSE @,
                !.tagStack = Splice(@, j)]

Fold3Level(ln_text) ==
    LET m == Exec(fold3HeaderRegex, ln_text)
    IN  IF m.found THEN Len(Group(ln_text, m, 1)) ELSE 0

\* Fold3Header that pushes the range up to the next header without the test j - 1 > i.
Fold3Header_Unguarded(st, lines) ==
    LET i == st.i
        level == Fold3Level(lines[i + 1])
        J == {j \in (i + 1)..(Len(lines) - 1) :
                 Fold3Level(lines[j + 1]) > 0 /\ Fold3Level(lines[j + 1]) <= level}
    IN  IF level = 0 THEN st
        ELSE IF J # {}
        THEN [st EXCEPT !.ranges = Append(@, [start |-> i, end |-> Least(J) - 1])]
        ELSE IF Len(lines) - 1 > i
        THEN [st EXCEPT !.ranges = Append(@, [start |-> i, end |-> Len(lines) - 1])]
        ELSE st

\* The header branch: the section ends before the next header of the same or
\* a higher level, or at the last line.
Fold3Header(st, lines) ==
    LET i == st.i
        level == Fold3Level(lines[i + 1])
        J == {j \in (i + 1)..(Len(lines) - 1) :
                 Fold3Level(lines[j + 1]) > 0 /\ Fold3Level(lines[j + 1]) <= level}
    IN  IF level = 0 THEN st
        ELSE IF J # {}
        THEN IF Least(J) - 1 > i
             THEN [st EXCEPT !.ranges = Append(@, [start |-> i, end |-> Least(J) - 1])]
             ELSE st
        ELSE IF Len(lines) - 1 > i
        THEN [st EXCEPT !.ranges = Append(@, [start |-> i, end |-> Len(lines) - 1])]
        ELSE st

\* One iteration of the loop over the lines, at index st.i.
Fold3LineStep(st, lines) ==
    LET ln_text == lines[st.i + 1]
    IN  IF Test(foldCodeBlockRegex, ln_text) THEN Fold3Fence(st, lines)
        ELSE IF st.inCodeBlock THEN [st EXCEPT !.i = st.i + 1]
        ELSE [Fold3Header(Fold3Close(Fold3Open(st, ln_text), ln_text), lines)
                 EXCEPT !.i = st.i + 1]

NewFold3 == [i |-> 0, inCodeBlock |-> FALSE, tagStack |-> << >>, ranges |-> << >>]

(***************************************************************************)
(* convertClaudeMdToMarkdown, processLine, processContentLine (part_000)   *)
(***************************************************************************)
NL == "\n"

\* /^(\s*)(`{3,}|~{3,})(.*)$/
fenceRegex ==
    Cat(<< Bol, Grp(1, Star(Space)),
           Grp(2, Alt(<< AtLeast(Backtick, 3), AtLeast(Lit("~"), 3) >>)),
           Grp(3, Star(Ch(Alphabet))), Eol >>)
\* closingFenceRegex that takes a run of either fence character of any length.
closingFenceRegex_AnyFence(fenceChar, fenceLength) ==
    Cat(<< Bol, Star(Space), Alt(<< AtLeast(Backtick, 3), AtLeast(Lit("~"), 3) >>),
           Star(Space), Eol >>)

\* new RegExp(`^\\s*${fenceChar}{${fenceLength},}\\s*$`)
closingFenceRegex(fenceChar, fenceLength) ==
    Cat(<< Bol, Star(Space), AtLeast(Lit(fenceChar), fenceLength), Star(Space), Eol >>)
\* /^<\/([a-zA-Z_][a-zA-Z0-9_-]*)>\s*$/
standaloneClosingRegex ==
    Cat(<< Bol, Lit("<"), Lit("/"), Grp(1, TagName), Lit(">"), Star(Space), Eol >>)
\* /^<([a-zA-Z_][a-zA-Z0-9_-]*)(\s+[^>]*)?>$/
standaloneOpeningRegex ==
    Cat(<< Bol, Lit("<"), Grp(1, TagName), AttrPart, Lit(">"), Eol >>)
\* /^<([a-zA-Z_][a-zA-Z0-9_-]*)(\s+[^>]*)?>(.+)<\/\1>$/
inlineTagRegex ==
    Cat(<< Bol, Lit("<"), Grp(1, TagName), AttrPart, Lit(">"),
           Grp(3, Plus(Ch(Alphabet))), Lit("<"), Lit("/"), Ref(1), Lit(">"), Eol >>)
\* /^<([a-zA-Z_][a-zA-Z0-9_-]*)(\s+[^>]*)?>(.+)$/
openingWithContentRegex ==
    Cat(<< Bol, Lit("<"), Grp(1, TagName), AttrPart, Lit(">"),
           Grp(3, Plus(Ch(Alphabet))), Eol >>)
\* /`[^`]+`/g
inlineCodeRegex == Cat(<< Backtick, Plus(Ch(Not({BT}))), Backtick >>)

\* s.includes('</')
IncludesCloser(s) == \E j \in 1..(Len(s) - 1) : s[j] = "<" /\ s[j + 1] = "/"

processContentLine(ln_text) ==
    LET mk == MaskWith(inlineCodeRegex, ln_text, << >>)
        stripped == DeleteMatches(mk.masked, ExecAll(strayTagRegex, mk.masked), 1, 1)
    IN  unmaskCodeContent(stripped, mk.codeBlocks)

\* `${headerPrefix} ${escapedName}${attrStr}`
ClaudeHeader(depth, tagName, attributes) ==
    Repeat("#", HeaderLevel(depth)) \o <<" ">> \o EscapeUnderscore(tagName)
    \o (IF attributes # << >> THEN <<" ", "(">> \o EscapeUnderscore(attributes) \o <<")">>
        ELSE << >>)

\* processLine(line, tagStack): [out |-> the returned string, tagStack |-> the stack after]
processLine(ln_text, tagStack) ==
    LET trimmed == Trim(ln_text)
        closing == Exec(standaloneClosingRegex, trimmed)
        opening == Exec(standaloneOpeningRegex, trimmed)
        inline == Exec(inlineTagRegex, trimmed)
        withContent == Exec(openingWithContentRegex, trimmed)
        depth == Len(tagStack)
        Attrs(m) == IF Group(trimmed, m, 2) # << >> THEN Trim(Group(trimmed, m, 2)) ELSE << >>
        Entry(m) == [name |-> Group(trimmed, m, 1), attributes |-> Attrs(m), depth |-> depth]
        Header(m) == ClaudeHeader(depth, Group(trimmed, m, 1), Attrs(m))
    IN  IF trimmed = << >> THEN [out |-> << >>, tagStack |-> tagStack]
        ELSE IF closing.found
        THEN LET j == NearestMatch(tagStack, Group(trimmed, closing, 1))
             IN  [out |-> << >>, tagStack |-> IF j = 0 THEN tagStack ELSE Splice(tagStack, j)]
        ELSE IF opening.found
        THEN [out |-> Header(opening) \o << NL >>, tagStack |-> Append(tagStack, Entry(opening))]
        ELSE IF inline.found
        THEN [out |-> Header(inline) \o << NL, NL >> \o Trim(Group(trimmed, inline, 3)) \o << NL >>,
              tagStack |-> tagStack]
        ELSE IF withContent.found /\ ~IncludesCloser(Group(trimmed, withContent, 3))
        THEN [out |-> IF Trim(Group(trimmed, withContent, 3)) # << >>
                      THEN Header(withContent) \o << NL, NL >> \o Trim(Group(trimmed, withContent, 3))
                      ELSE Header(withContent) \o << NL >>,
              tagStack |-> Append(tagStack, Entry(withContent))]
        ELSE [out |-> processContentLine(ln_text), tagStack |-> tagStack]

\* One iteration of the loop over lines of convertClaudeMdToMarkdown, at index st.i.
ClaudeLineStep(st, lines) ==
    LET ln_text == lines[st.i + 1]
        next == [st EXCEPT !.i = st.i + 1]
        fenceMatch == Exec(fenceRegex, ln_text)
        processed == processLine(ln_text, st.tagStack)
    IN  IF fenceMatch.found /\ ~st.inFencedCodeBlock
        THEN [next EXCEPT !.inFencedCodeBlock = TRUE,
                          !.fenceChar = Group(ln_text, fenceMatch, 2)[1],
                          !.fenceLength = Len(Group(ln_text, fenceMatch, 2)),
                          !.output = Append(@, ln_text)]
        ELSE IF fenceMatch.found /\ Test(closingFenceRegex(st.fenceChar, st.fenceLength), ln_text)
        THEN [next EXCEPT !.inFencedCodeBlock = FALSE, !.output = Append(@, ln_text)]
        ELSE IF st.inFencedCodeBlock THEN [next EXCEPT !.output = Append(@, ln_text)]
        ELSE [next EXCEPT !.output = Append(@, processed.out), !.tagStack = processed.tagStack]

NewClaude ==
    [i |-> 0, inFencedCodeBlock |-> FALSE, fenceChar |-> "", fenceLength |-> 0,
     tagStack |-> << >>, output |-> << >>]

\* result.join('\n') read back as lines.
RECURSIVE Join(_)
Join(strs) ==
    IF strs = << >> THEN << >>
    ELSE IF Len(strs) = 1 THEN strs[1]
    ELSE strs[1] \o << NL >> \o Join(Tail(strs))

RECURSIVE SplitLines(_)
SplitLines(s) ==
    LET S == {j \in 1..Len(s) : s[j] = NL}
    IN  IF S = {} THEN << s >>
        ELSE LET j == CHOOSE x \in S : \A y \in S : x <= y
             IN  << SubSeq(s, 1, j - 1) >> \o SplitLines(SubSeq(s, j + 1, Len(s)))

(***************************************************************************)
(* beautifyDocument (part_000 first variant; src/extension.ts has the same *)
(* body) and beautifyDocument of the third variant                         *)
(***************************************************************************)
\* indentString.repeat(currentIndent), indentString = two spaces
Indent(n) == Repeat(" ", 2 * n)

\* /^(\s*)<([a-zA-Z_][a-zA-Z0-9_-]*)(\s+[^>]*)?>(\s*)$/
openingTagRegex ==
    Cat(<< Bol, Grp(1, Star(Space)), Lit("<"), Grp(2, TagName),
           Opt(Grp(3, Cat(<< Plus(Space), Star(Ch(Not({">"}))) >>))), Lit(">"),
           Grp(4, Star(Space)), Eol >>)
\* /^(\s*)<\/([a-zA-Z_][a-zA-Z0-9_-]*)>(\s*)$/
closingTagRegex ==
    Cat(<< Bol, Grp(1, Star(Space)), Lit("<"), Lit("/"), Grp(2, TagName), Lit(">"),
           Grp(3, Star(Space)), Eol >>)
\* /^(\s*)<([a-zA-Z_][a-zA-Z0-9_-]*)(\s+[^>]*)?\/>\s*$/
selfClosingTagRegex ==
    Cat(<< Bol, Grp(1, Star(Space)), Lit("<"), Grp(2, TagName),
           Opt(Grp(3, Cat(<< Plus(Space), Star(Ch(Not({">"}))) >>))), Lit("/"), Lit(">"),
           Star(Space), Eol >>)
\* /^(\s*)(#{1,6}\s+.*)$/
beautifyHeaderRegex ==
    Cat(<< Bol, Grp(1, Star(Space)),
           Grp(2, Cat(<< Rep(Lit("#"), 1, 6, TRUE), Plus(Space), Star(Ch(Alphabet)) >>)),
           Eol >>)

\* BeautifyLineStep whose closing branch lowers the indent without the floor at 0.
BeautifyLineStep_NoFloor(st, lines) ==
    LET ln_text == lines[st.i + 1]
        next == [st EXCEPT !.i = st.i + 1]
        indented == Indent(Max2(0, st.currentIndent)) \o Trim(ln_text)
    IN  IF Test(codeBlockRegex, ln_text)
        THEN [next EXCEPT !.inCodeBlock = ~st.inCodeBlock,
                          !.result = Append(@, indented)]
        ELSE IF st.inCodeBlock
        THEN [next EXCEPT !.result = Append(@, ln_text)]
        ELSE IF Test(closingTagRegex, ln_text)
        THEN [next EXCEPT
                !.currentIndent = st.currentIndent - 1,
                !.result = Append(@, Indent(Max2(0, st.currentIndent - 1)) \o Trim(ln_text))]
        ELSE IF Test(selfClosingTagRegex, ln_text)
        THEN [next EXCEPT !.result = Append(@, indented)]
        ELSE IF Test(openingTagRegex, ln_text)
        THEN [next EXCEPT !.result = Append(@, indented),
                          !.currentIndent = st.currentIndent + 1]
        ELSE IF Test(beautifyHeaderRegex, ln_text)
        THEN [next EXCEPT !.result = Append(@, Trim(ln_text))]
        ELSE IF Trim(ln_text) = << >>
        THEN [next EXCEPT !.result = Append(@, << >>)]
        ELSE [next EXCEPT !.result = Append(@, indented)]

\* One iteration of the loop over the lines of beautifyDocument, at index st.i.
BeautifyLineStep(st, lines) ==
    LET ln_text == lines[st.i + 1]
        next == [st EXCEPT !.i = st.i + 1]
        indented == Indent(st.currentIndent) \o Trim(ln_text)
    IN  IF Test(codeBlockRegex, ln_text)
        THEN [next EXCEPT !.inCodeBlock = ~st.inCodeBlock,
                          !.result = Append(@, indented)]
        ELSE IF st.inCodeBlock
        THEN [next EXCEPT !.result = Append(@, ln_text)]
        ELSE IF Test(closingTagRegex, ln_text)
        THEN [next EXCEPT
                !.currentIndent = Max2(0, st.currentIndent - 1),
                !.result = Append(@, Indent(Max2(0, st.currentIndent - 1)) \o Trim(ln_text))]
        ELSE IF Test(selfClosingTagRegex, ln_text)
        THEN [next EXCEPT !.result = Append(@, indented)]
        ELSE IF Test(openingTagRegex, ln_text)
        THEN [next EXCEPT !.result = Append(@, indented),
                          !.currentIndent = st.currentIndent + 1]
        ELSE IF Test(beautifyHeaderRegex, ln_text)
        THEN [next EXCEPT !.result = Append(@, Trim(ln_text))]
        ELSE IF Trim(ln_text) = << >>
        THEN [next EXCEPT !.result = Append(@, << >>)]
        ELSE [next EXCEPT !.result = Append(@, indented)]

NewBeautify == [i |-> 0, currentIndent |-> 0, inCodeBlock |-> FALSE, result |-> << >>]

\* /^<\/[a-zA-Z_][a-zA-Z0-9_-]*>\s*$/
beautify3ClosingRegex ==
    Cat(<< Bol, Lit("<"), Lit("/"), TagName, Lit(">"), Star(Space), Eol >>)
\* /^<[a-zA-Z_][a-zA-Z0-9_-]*(\s+[^>]*)?>$/
beautify3OpeningRegex ==
    Cat(<< Bol, Lit("<"), TagName,
           Opt(Grp(1, Cat(<< Plus(Space), Star(Ch(Not({">"}))) >>))), Lit(">"), Eol >>)
\* /^#{1,6}\s+/
beautify3HeaderRegex == Cat(<< Bol, Rep(Lit("#"), 1, 6, TRUE), Plus(Space) >>)

\* Beautify3LineStep without the branch that passes code-block content through.
Beautify3LineStep_NoCodeBranch(st, lines) ==
    LET ln_text == lines[st.i + 1]
        next == [st EXCEPT !.i = st.i + 1]
        trimmed == Trim(ln_text)
    IN  IF Test(codeBlockRegex, ln_text)
        THEN [next EXCEPT !.result = Append(@, Indent(st.depth) \o Trim(ln_text)),
                          !.inCodeBlock = ~st.inCodeBlock]
        ELSE IF trimmed = << >>
        THEN [next EXCEPT !.result = Append(@, << >>)]
        ELSE IF Test(beautify3ClosingRegex, trimmed)
        THEN [next EXCEPT
                !.depth = Max2(0, st.depth - 1),
                !.result = Append(@, Indent(Max2(0, st.depth - 1)) \o trimmed)]
        ELSE IF Test(beautify3OpeningRegex, trimmed)
        THEN [next EXCEPT !.result = Append(@, Indent(st.depth) \o trimmed),
                          !.depth = st.depth + 1]
        ELSE IF Test(beautify3HeaderRegex, trimmed)
        THEN [next EXCEPT !.result = Append(@, trimmed)]
        ELSE [next EXCEPT !.result = Append(@, Indent(st.depth) \o trimmed)]

\* One iteration of the loop `for (const line of lines)` of the third variant.
Beautify3LineStep(st, lines) ==
    LET ln_text == lines[st.i + 1]
        next == [st EXCEPT !.i = st.i + 1]
        trimmed == Trim(ln_text)
    IN  IF Test(codeBlockRegex, ln_text)
        THEN [next EXCEPT !.result = Append(@, Indent(st.depth) \o Trim(ln_text)),
                          !.inCodeBlock = ~st.inCodeBlock]
        ELSE IF st.inCodeBlock
        THEN [next EXCEPT !.result = Append(@, ln_text)]
        ELSE IF trimmed = << >>
        THEN [next EXCEPT !.result = Append(@, << >>)]
        ELSE IF Test(beautify3ClosingRegex, trimmed)
        THEN [next EXCEPT
                !.depth = Max2(0, st.depth - 1),
                !.result = Append(@, Indent(Max2(0, st.depth - 1)) \o trimmed)]
        ELSE IF Test(beautify3OpeningRegex, trimmed)
        THEN [next EXCEPT !.result = Append(@, Indent(st.depth) \o trimmed),
                          !.depth = st.depth + 1]
        ELSE IF Test(beautify3HeaderRegex, trimmed)
        THEN [next EXCEPT !.result = Append(@, trimmed)]
        ELSE [next EXCEPT !.result = Append(@, Indent(st.depth) \o trimmed)]

NewBeautify3 == [i |-> 0, depth |-> 0, inCodeBlock |-> FALSE, result |-> << >>]

(***************************************************************************)
(* src/extension.ts: parseDocument and the depth resolution of its         *)
(* convertToMarkdown                                                       *)
(***************************************************************************)
ExtXmlTag(name, ln, indent, kind, attributes) ==
    [name |-> name, line |-> ln, indent |-> indent,
     isOpening |-> kind = "opening", isClosing |-> kind = "closing",
     isSelfClosing |-> kind = "selfClosing", attributes |-> attributes]

ExtTagsOf(re, s, ln, indent, kind) ==
    LET ms == ExecAll(re, s)
    IN  [j \in 1..Len(ms) |->
            ExtXmlTag(Group(s, ms[j], 1), ln, indent, kind,
                      IF kind = "closing" THEN << >> ELSE parseAttributes(Group(s, ms[j], 2)))]

\* The tags of one line: the regular expressions run on the text of the line itself.
ExtLineTags(ln_text, ln) ==
    LET indent == LeadingWS(ln_text)
        textWithoutSelfClosing ==
            DeleteMatches(ln_text, ExecAll(xmlSelfClosingRegex, ln_text), 1, 1)
    IN  ExtTagsOf(xmlSelfClosingRegex, ln_text, ln, indent, "selfClosing")
        \o ExtTagsOf(xmlClosingTagRegex, ln_text, ln, indent, "closing")
        \o ExtTagsOf(xmlOpeningTagRegex, textWithoutSelfClosing, ln, indent, "opening")

\* One iteration of parseDocument's loop over the lines of the document.
ExtParseLineStep(st, lines) ==
    LET ln_text == lines[st.i + 1]
        next == [st EXCEPT !.i = st.i + 1]
    IN  IF Test(codeBlockRegex, ln_text)
        THEN [next EXCEPT !.inCodeBlock = ~st.inCodeBlock]
        ELSE IF st.inCodeBlock THEN next
        ELSE IF Test(horizontalRuleRegex, ln_text)
        THEN [next EXCEPT !.horizontalRules = Append(@, st.i)]
        ELSE [next EXCEPT !.headers = @ \o LineHeaders(ln_text, st.i),
                          !.xmlTags = @ \o ExtLineTags(ln_text, st.i)]

RECURSIVE ExtParseLoop(_, _)
ExtParseLoop(st, lines) ==
    IF st.i >= Len(lines) THEN st ELSE ExtParseLoop(ExtParseLineStep(st, lines), lines)

parseDocument(lines) == Structure(ExtParseLoop(NewParse, lines))

\* if (tag.line > 0) for (const hrLine of hrLines) if (hrLine < tag.line &&
\*     hrLine > (tagStack.length > 0 ? tagStack[tagStack.length - 1].line : 0)) reset
RECURSIVE ExtResetAtRules(_, _, _, _)
ExtResetAtRules(hrLines, j, tag, st) ==
    IF j > Len(hrLines) \/ ~(tag.line > 0) THEN st
    ELSE ExtResetAtRules(hrLines, j + 1, tag,
            IF /\ hrLines[j] < tag.line
               /\ hrLines[j] > (IF Len(st.tagStack) > 0
                                THEN st.tagStack[Len(st.tagStack)].line ELSE 0)
            THEN [st EXCEPT !.currentDepth = 0, !.baseDepth = 0, !.tagStack = << >>]
            ELSE st)

ExtOpenTag(st, tag) ==
    [st EXCEPT !.tagDepthMap = Put(@, tag.line, st.currentDepth),
               !.tagNameMap = Put(@, tag.line, [name |-> tag.name, attributes |-> tag.attributes]),
               !.tagStack = Append(@, [name |-> tag.name, line |-> tag.line]),
               !.currentDepth = @ + 1]

ExtCloseTag(st, tag) ==
    LET j == NearestMatch(st.tagStack, tag.name)
        ended == [st EXCEPT !.tagEndLines = @ \cup {tag.line}]
    IN  IF j = 0 THEN ended
        ELSE [ended EXCEPT !.tagStack = Splice(@, j),
                           !.currentDepth = Max2(0, @ - 1)]

ExtSelfClosingTag(st, tag) ==
    [st EXCEPT !.tagDepthMap = Put(@, tag.line, st.currentDepth),
               !.tagNameMap = Put(@, tag.line, [name |-> tag.name, attributes |-> tag.attributes])]

ExtResolveTagStep(st) ==
    LET tag == st.structure.xmlTags[st.k + 1]
        reset == ExtResetAtRules(st.structure.horizontalRules, 1, tag, st)
        next == [reset EXCEPT !.k = st.k + 1]
    IN  IF tag.isOpening THEN ExtOpenTag(next, tag)
        ELSE IF tag.isClosing THEN ExtCloseTag(next, tag)
        ELSE IF tag.isSelfClosing THEN ExtSelfClosingTag(next, tag)
        ELSE next

\* /^(\s*)(`{3,}|~{3,})(\S*)?$/
extCodeBlockRegex ==
    Cat(<< Bol, Grp(1, Star(Space)),
           Grp(2, Alt(<< AtLeast(Backtick, 3), AtLeast(Lit("~"), 3) >>)),
           Opt(Grp(3, Star(Ch(Not(WS))))), Eol >>)
\* /<([a-zA-Z_][a-zA-Z0-9_-]*)(?:\s+[^>]*)?>(.+?)<\/\1>/g
extInlineTagRegex ==
    Cat(<< Lit("<"), Grp(1, TagName),
           Opt(Cat(<< Plus(Space), Star(Ch(Not({">"}))) >>)), Lit(">"),
           Grp(2, PlusLazy(Ch(Alphabet))), Lit("<"), Lit("/"), Ref(1), Lit(">") >>)
\* new RegExp(`<${tagInfo.name}(?:\\s+[^>]*)?>(.*)$`)
extTagPattern(name) ==
    Cat(<< Lit("<") >> \o [j \in 1..Len(name) |-> Lit(name[j])]
        \o << Opt(Cat(<< Plus(Space), Star(Ch(Not({">"}))) >>)), Lit(">"),
              Grp(1, Star(Ch(Alphabet))), Eol >>)

\* attrs.push(`${key}="${value}"`); ` (${attrs.join(', ')})`
RECURSIVE ExtJoinAttrs(_, _)
ExtJoinAttrs(attributes, j) ==
    IF j > Len(attributes) THEN << >>
    ELSE (IF j > 1 THEN <<",", " ">> ELSE << >>)
         \o attributes[j].key \o <<"=", DQ>> \o attributes[j].value \o << DQ >>
         \o ExtJoinAttrs(attributes, j + 1)

ExtAttrString(attributes) ==
    IF Len(attributes) > 0 THEN <<" ", "(">> \o ExtJoinAttrs(attributes, 1) \o <<")">> ELSE << >>

\* The lines pushed for a line that has an entry in tagDepthMap.
ExtTagLineOutput(ln_text, depth, tagInfo) ==
    LET contentMatch == Exec(extTagPattern(tagInfo.name), ln_text)
        content == Trim(Group(ln_text, contentMatch, 1))
    IN  << Repeat("#", HeaderLevel(depth)) \o <<" ">> \o tagInfo.name
              \o ExtAttrString(tagInfo.attributes) >>
        \o (IF contentMatch.found /\ content # << >> THEN << content >> ELSE << >>)

\* s.replace(pat, repl) for a string pat: the first occurrence is replaced.
ReplaceFirst(s, pat, repl) ==
    LET At == {j \in 1..(Len(s) - Len(pat) + 1) : SubSeq(s, j, j + Len(pat) - 1) = pat}
    IN  IF At = {} THEN s
        ELSE SubSeq(s, 1, Least(At) - 1) \o repl \o SubSeq(s, Least(At) + Len(pat), Len(s))

\* while ((match = inlineTagRegex.exec(line)) !== null)
\*     processedLine = processedLine.replace(match[0], `**${match[1]}**: ${match[2]}`)
RECURSIVE ExtInlineReplace(_, _, _, _)
ExtInlineReplace(ln_text, ms, j, processedLine) ==
    IF j > Len(ms) THEN processedLine
    ELSE ExtInlineReplace(ln_text, ms, j + 1,
            ReplaceFirst(processedLine, SubSeq(ln_text, ms[j].index, ms[j].end - 1),
                         <<"*", "*">> \o Group(ln_text, ms[j], 1) \o <<"*", "*", ":", " ">>
                         \o Group(ln_text, ms[j], 2)))

\* The lines pushed for a line without an entry in tagDepthMap.
ExtContentLineOutput(ln_text) ==
    LET inlined == ExtInlineReplace(ln_text, ExecAll(extInlineTagRegex, ln_text), 1, ln_text)
        processedLine == DeleteMatches(inlined, ExecAll(strayTagRegex, inlined), 1, 1)
    IN  IF Trim(processedLine) # << >> \/ Trim(ln_text) = << >>
        THEN << processedLine >> ELSE << >>

\* One iteration of the loop over lines of convertToMarkdown (src/extension.ts),
\* at index st.i. (mdHeaderBaseLevel is computed before the loop and never read.)
ExtRewriteLineStep(st, lines) ==
    LET ln_text == lines[st.i + 1]
        next == [st EXCEPT !.i = st.i + 1]
    IN  IF Test(extCodeBlockRegex, ln_text)
        THEN [next EXCEPT !.inCodeBlock = ~st.inCodeBlock, !.result = Append(@, ln_text)]
        ELSE IF st.inCodeBlock THEN [next EXCEPT !.result = Append(@, ln_text)]
        ELSE IF st.i \in st.tagEndLines THEN next
        ELSE IF Has(st.tagDepthMap, st.i)
        THEN [next EXCEPT !.result =
                @ \o ExtTagLineOutput(ln_text, st.tagDepthMap[st.i], st.tagNameMap[st.i])]
        ELSE [next EXCEPT !.result = @ \o ExtContentLineOutput(ln_text)]

NewExt ==
    [structure |-> NoStructure, tagDepthMap |-> EmptyMap, tagNameMap |-> EmptyMap,
     tagEndLines |-> {}, currentDepth |-> 0, baseDepth |-> 0, tagStack |-> << >>, k |-> 0,
     inCodeBlock |-> FALSE, result |-> << >>, i |-> 0]

(***************************************************************************)
(* Bounded inputs                                                          *)
(***************************************************************************)
Strings(chars, n) == UNION {[1..m -> chars] : m \in 0..n}

\* Lines for the code-mask utility: backticks and one other character.
MaxMaskLen == 8
MaskChars == {BT, "a"}
MaskLines == Strings(MaskChars, MaxMaskLen)

\* Documents are sequences of 1..n lines drawn from a catalog of lines.
Docs(catalog, n) == UNION {[1..m -> catalog] : m \in 1..n}

OpenA == <<"<", "a", ">">>
CloseA == <<"<", "/", "a", ">">>
CloseB == <<"<", "/", "b", ">">>
SelfB == <<"<", "b", "/", ">">>
TwoOpenA == OpenA \o OpenA
InlineA == OpenA \o <<"x">> \o CloseA
Rule == <<"-", "-", "-">>
Plain == <<"x">>
BacktickFence == << BT, BT, BT >>
TildeFence == <<"~", "~", "~">>
LongFence == << BT, BT, BT, BT >>
InfoFence == << BT, BT, BT, "a" >>
HeaderH == <<"#", " ", "h">>
CodeSpanA == << BT >> \o OpenA \o << BT >>
OpenTDouble == <<"<", "t", " ", "k", "=", DQ, "v", DQ, ">">>
OpenTSingle == <<"<", "t", " ", "k", "=", SQ, "v", SQ, ">">>
CloseT == <<"<", "/", "t", ">">>

\* Tags, unmatched closings, several tags on a line, horizontal rules.
MaxTagLines == 3
TagCatalog == {OpenA, CloseA, CloseB, SelfB, TwoOpenA, InlineA, Rule}
TagDocs == Docs(TagCatalog, MaxTagLines)

\* Fences, code spans, and lines that look like tags, headers and rules.
MaxParseLines == 3
ParseCatalog ==
    {BacktickFence, TildeFence, LongFence, InfoFence, OpenA, HeaderH, Rule, CodeSpanA, Plain}
ParseDocs == Docs(ParseCatalog, MaxParseLines)

\* Both fence characters, tags with an attribute, text, headers and rules.
MaxTransformLines == 3
TransformCatalog ==
    {BacktickFence, TildeFence, LongFence, OpenTDouble, OpenTSingle, Plain, CloseT, Rule, HeaderH}
TransformDocs == Docs(TransformCatalog, MaxTransformLines)

(***************************************************************************)
(* State                                                                   *)
(***************************************************************************)
VARIABLES
    pc,         \* position of the running call
    line,       \* the line given to the code-mask utility
    maskOut,    \* maskCodeContent's result {masked, codeBlocks}
    unmasked,   \* unmaskCodeContent's result
    text,       \* the lines of the document (text.split(/\r?\n/))
    parse,      \* locals of parseDocumentText (part_000)
    extParse,   \* locals of parseDocument (src/extension.ts)
    conv,       \* locals of convertToMarkdown (part_000)
    fold,       \* locals of provideFoldingRanges (part_000)
    claude,     \* locals of convertClaudeMdToMarkdown (part_000)
    ext,        \* locals of convertToMarkdown (src/extension.ts)
    markdown,   \* the string a transformer returned
    fold3,      \* locals of provideFoldingRanges (part_000, third variant)
    beauty,     \* locals of beautifyDocument (part_000, src/extension.ts)
    beauty3,    \* locals of beautifyDocument (part_000, third variant)
    edits,      \* the replacement texts beautifyDocument returned, in order
    calls,      \* the calls that returned, in order: function, text, result
    attrString, \* the attribute text given to parseAttributes
    attributes, \* the Map parseAttributes returned
    documents,  \* the text of each open document (document.getText())
    tempFilePath,            \* module global tempFilePath (part_000)
    documentChangeListener,  \* module global documentChangeListener (part_000, third variant)
    files,      \* the contents of the preview files in os.tmpdir()
    subscriptions,           \* the change listeners showPreview registered, in order
    previews    \* the showPreview activations waiting at their await

maskVars == <<line, maskOut, unmasked>>
docVars == <<text, parse, extParse, conv, fold, claude, ext, markdown>>
editorVars == <<fold3, beauty, beauty3, edits, calls>>
attrVars == <<attrString, attributes>>
previewVars ==
    <<documents, tempFilePath, documentChangeListener, files, subscriptions, previews>>
vars ==
    <<pc, line, maskOut, unmasked, text, parse, extParse, conv, fold, claude, ext, markdown,
      fold3, beauty, beauty3, edits, calls, attrString, attributes,
      documents, tempFilePath, documentChangeListener, files, subscriptions, previews>>

\* The open documents, by the base name of their file, and the texts each takes.
Documents == {"one", "two"}
DocumentTexts(document) ==
    IF document = "one" THEN << <<OpenA>>, <<OpenA, Plain>> >>
                        ELSE << <<Plain>>, <<Plain, Plain>> >>
\* path.join(os.tmpdir(), `${originalName}_preview.md`)
PreviewPath(document) == <<document, "_preview.md">>
NoFile == <<"ENOENT">>

\* No preview was shown yet: the globals are undefined and no file exists.
NoPreview ==
    /\ documents = [d \in Documents |-> DocumentTexts(d)[1]]
    /\ tempFilePath = Undefined
    /\ documentChangeListener = Undefined
    /\ files = [path \in {PreviewPath(d) : d \in Documents} |-> NoFile]
    /\ subscriptions = << >>
    /\ previews = << >>

NoMask == [masked |-> << >>, codeBlocks |-> << >>]

NoCalls ==
    /\ parse = NewParse
    /\ extParse = NewParse
    /\ conv = NewConvert
    /\ fold = NewFold
    /\ claude = NewClaude
    /\ ext = NewExt
    /\ markdown = << >>
    /\ fold3 = NewFold3
    /\ beauty = NewBeautify
    /\ beauty3 = NewBeautify3
    /\ edits = << >>
    /\ calls = << >>
    /\ attributes = << >>
    /\ NoPreview

NoMaskCall ==
    /\ attrString = << >>
    /\ line = << >>
    /\ maskOut = NoMask
    /\ unmasked = << >>

(***************************************************************************)
(* The code-mask round trip: mask a line, then unmask the masked text.     *)
(***************************************************************************)
InitMask ==
    /\ pc = "mask"
    /\ line \in MaskLines
    /\ maskOut = NoMask
    /\ unmasked = << >>
    /\ text = << >>
    /\ attrString = << >>
    /\ NoCalls

MaskLine ==
    /\ pc = "mask"
    /\ maskOut' = maskCodeContent(line)
    /\ pc' = "unmask"
    /\ UNCHANGED <<line, unmasked>>
    /\ UNCHANGED docVars
    /\ UNCHANGED editorVars
    /\ UNCHANGED attrVars
    /\ UNCHANGED previewVars

UnmaskLine ==
    /\ pc = "unmask"
    /\ unmasked' = unmaskCodeContent(maskOut.masked, maskOut.codeBlocks)
    /\ pc' = "unmasked"
    /\ UNCHANGED <<line, maskOut>>
    /\ UNCHANGED docVars
    /\ UNCHANGED editorVars
    /\ UNCHANGED attrVars
    /\ UNCHANGED previewVars

NextMask == MaskLine \/ UnmaskLine

SpecMask == InitMask /\ [][NextMask]_vars

(***************************************************************************)
(* The structure extractors, one line per step.                            *)
(***************************************************************************)
ParseLine ==
    /\ pc = "parseDocumentText"
    /\ parse.i < Len(text)
    /\ parse' = ParseLineStep(parse, text)
    /\ UNCHANGED <<pc, text, extParse, conv, fold, claude, ext, markdown>>
    /\ UNCHANGED maskVars
    /\ UNCHANGED attrVars
    /\ UNCHANGED previewVars
    /\ UNCHANGED editorVars

ExtParseLine ==
    /\ pc = "parseDocument"
    /\ extParse.i < Len(text)
    /\ extParse' = ExtParseLineStep(extParse, text)
    /\ UNCHANGED <<pc, text, parse, conv, fold, claude, ext, markdown>>
    /\ UNCHANGED maskVars
    /\ UNCHANGED attrVars
    /\ UNCHANGED previewVars
    /\ UNCHANGED editorVars

InitParse ==
    /\ pc \in {"parseDocumentText", "parseDocument"}
    /\ text \in ParseDocs
    /\ NoCalls
    /\ NoMaskCall

NextParse == ParseLine \/ ExtParseLine

SpecParse == InitParse /\ [][NextParse]_vars

(***************************************************************************)
(* convertToMarkdown (part_000): parse, resolve the depth of each tag,     *)
(* rewrite each line, join.                                                *)
(***************************************************************************)
ConvertStart ==
    /\ pc = "convertToMarkdown"
    /\ conv' = [NewConvert EXCEPT !.structure = parseDocumentText(text)]
    /\ pc' = "resolve"
    /\ UNCHANGED <<text, parse, extParse, fold, claude, ext, markdown>>
    /\ UNCHANGED maskVars
    /\ UNCHANGED attrVars
    /\ UNCHANGED previewVars
    /\ UNCHANGED editorVars

ResolveTag ==
    /\ pc = "resolve"
    /\ conv.k < Len(conv.structure.xmlTags)
    /\ conv' = ResolveTagStep(conv)
    /\ UNCHANGED <<pc, text, parse, extParse, fold, claude, ext, markdown>>
    /\ UNCHANGED maskVars
    /\ UNCHANGED attrVars
    /\ UNCHANGED previewVars
    /\ UNCHANGED editorVars

RewriteLine ==
    /\ pc \in {"resolve", "rewrite"}
    /\ conv.k = Len(conv.structure.xmlTags)
    /\ conv.i < Len(text)
    /\ conv' = RewriteLineStep(conv, text)
    /\ pc' = "rewrite"
    /\ UNCHANGED <<text, parse, extParse, fold, claude, ext, markdown>>
    /\ UNCHANGED maskVars
    /\ UNCHANGED attrVars
    /\ UNCHANGED previewVars
    /\ UNCHANGED editorVars

ConvertReturn ==
    /\ pc = "rewrite"
    /\ conv.i = Len(text)
    /\ markdown' = Join(conv.result)
    /\ pc' = "done"
    /\ UNCHANGED <<text, parse, extParse, conv, fold, claude, ext>>
    /\ UNCHANGED maskVars
    /\ UNCHANGED attrVars
    /\ UNCHANGED previewVars
    /\ UNCHANGED editorVars

(***************************************************************************)
(* provideFoldingRanges (part_000): the walk over the tags.                *)
(***************************************************************************)
FoldStart ==
    /\ pc = "provideFoldingRanges"
    /\ fold' = [NewFold EXCEPT !.structure = parseDocumentText(text)]
    /\ pc' = "foldTags"
    /\ UNCHANGED <<text, parse, extParse, conv, claude, ext, markdown>>
    /\ UNCHANGED maskVars
    /\ UNCHANGED attrVars
    /\ UNCHANGED previewVars
    /\ UNCHANGED editorVars

FoldTag ==
    /\ pc = "foldTags"
    /\ fold.k < Len(fold.structure.xmlTags)
    /\ fold' = FoldTagStep(fold)
    /\ UNCHANGED <<pc, text, parse, extParse, conv, claude, ext, markdown>>
    /\ UNCHANGED maskVars
    /\ UNCHANGED attrVars
    /\ UNCHANGED previewVars
    /\ UNCHANGED editorVars

(***************************************************************************)
(* convertToMarkdown (src/extension.ts): the depth resolution.             *)
(***************************************************************************)
ExtStart ==
    /\ pc = "extConvertToMarkdown"
    /\ ext' = [NewExt EXCEPT !.structure = parseDocument(text)]
    /\ pc' = "extResolve"
    /\ UNCHANGED <<text, parse, extParse, conv, fold, claude, markdown>>
    /\ UNCHANGED maskVars
    /\ UNCHANGED attrVars
    /\ UNCHANGED previewVars
    /\ UNCHANGED editorVars

ExtResolveTag ==
    /\ pc = "extResolve"
    /\ ext.k < Len(ext.structure.xmlTags)
    /\ ext' = ExtResolveTagStep(ext)
    /\ UNCHANGED <<pc, text, parse, extParse, conv, fold, claude, markdown>>
    /\ UNCHANGED maskVars
    /\ UNCHANGED attrVars
    /\ UNCHANGED previewVars
    /\ UNCHANGED editorVars

InitTags ==
    /\ pc \in {"convertToMarkdown", "provideFoldingRanges", "extConvertToMarkdown"}
    /\ text \in TagDocs
    /\ NoCalls
    /\ NoMaskCall

NextTags ==
    \/ ConvertStart
    \/ ResolveTag
    \/ RewriteLine
    \/ ConvertReturn
    \/ FoldStart
    \/ FoldTag
    \/ ExtStart
    \/ ExtResolveTag

SpecTags == InitTags /\ [][NextTags]_vars

(***************************************************************************)
(* convertClaudeMdToMarkdown (part_000), one line per step, then the join. *)
(***************************************************************************)
ClaudeLine ==
    /\ pc = "convertClaudeMdToMarkdown"
    /\ claude.i < Len(text)
    /\ claude' = ClaudeLineStep(claude, text)
    /\ UNCHANGED <<pc, text, parse, extParse, conv, fold, ext, markdown>>
    /\ UNCHANGED maskVars
    /\ UNCHANGED attrVars
    /\ UNCHANGED previewVars
    /\ UNCHANGED editorVars

ClaudeReturn ==
    /\ pc = "convertClaudeMdToMarkdown"
    /\ claude.i = Len(text)
    /\ markdown' = Join(claude.output)
    /\ pc' = "done"
    /\ UNCHANGED <<text, parse, extParse, conv, fold, claude, ext>>
    /\ UNCHANGED maskVars
    /\ UNCHANGED attrVars
    /\ UNCHANGED previewVars
    /\ UNCHANGED editorVars

InitTransform ==
    /\ pc \in {"convertToMarkdown", "convertClaudeMdToMarkdown"}
    /\ text \in TransformDocs
    /\ NoCalls
    /\ NoMaskCall

NextTransform ==
    \/ ConvertStart
    \/ ResolveTag
    \/ RewriteLine
    \/ ConvertReturn
    \/ ClaudeLine
    \/ ClaudeReturn

SpecTransform == InitTransform /\ [][NextTransform]_vars

(***************************************************************************)
(* The folding providers on documents with fences, headers and tags: the   *)
(* first variant walks the tags, then the headers, then the lines; the     *)
(* third variant walks the lines once.                                     *)
(***************************************************************************)
FoldHeader ==
    /\ pc \in {"foldTags", "foldHeaders"}
    /\ fold.k = Len(fold.structure.xmlTags)
    /\ fold.h < Len(fold.structure.headers)
    /\ fold' = FoldHeaderStep(fold, Len(text))
    /\ pc' = "foldHeaders"
    /\ UNCHANGED <<text, parse, extParse, conv, claude, ext, markdown>>
    /\ UNCHANGED maskVars
    /\ UNCHANGED attrVars
    /\ UNCHANGED previewVars
    /\ UNCHANGED editorVars

FoldCodeLine ==
    /\ pc \in {"foldTags", "foldHeaders", "foldCode"}
    /\ fold.k = Len(fold.structure.xmlTags)
    /\ fold.h = Len(fold.structure.headers)
    /\ fold.i < Len(text)
    /\ fold' = FoldCodeLineStep(fold, text)
    /\ pc' = "foldCode"
    /\ UNCHANGED <<text, parse, extParse, conv, claude, ext, markdown>>
    /\ UNCHANGED maskVars
    /\ UNCHANGED attrVars
    /\ UNCHANGED previewVars
    /\ UNCHANGED editorVars

Fold3Line ==
    /\ pc = "provideFoldingRanges3"
    /\ fold3.i < Len(text)
    /\ fold3' = Fold3LineStep(fold3, text)
    /\ UNCHANGED <<pc, beauty, beauty3, edits, calls>>
    /\ UNCHANGED docVars
    /\ UNCHANGED maskVars
    /\ UNCHANGED attrVars
    /\ UNCHANGED previewVars

SubHeader == <<"#", "#", " ", "h">>

MaxFoldLines == 3
FoldCatalog ==
    {BacktickFence, TildeFence, LongFence, HeaderH, SubHeader, OpenA, CloseA, Plain}
FoldDocs == Docs(FoldCatalog, MaxFoldLines)

InitFold ==
    /\ pc \in {"provideFoldingRanges", "provideFoldingRanges3"}
    /\ text \in FoldDocs
    /\ NoCalls
    /\ NoMaskCall

NextFold ==
    \/ FoldStart
    \/ FoldTag
    \/ FoldHeader
    \/ FoldCodeLine
    \/ Fold3Line

SpecFold == InitFold /\ [][NextFold]_vars

(***************************************************************************)
(* The folding providers and convertToMarkdown on longer documents of      *)
(* fences and tags (no headers: the loop over the headers has no           *)
(* iteration).                                                             *)
(***************************************************************************)
MaxFenceLines == 5
FenceCatalog == {BacktickFence, TildeFence, OpenA}
FenceDocs == Docs(FenceCatalog, MaxFenceLines)

InitFence ==
    /\ pc \in {"provideFoldingRanges", "provideFoldingRanges3", "convertToMarkdown"}
    /\ text \in FenceDocs
    /\ NoCalls
    /\ NoMaskCall

NextFence ==
    \/ FoldStart
    \/ FoldTag
    \/ FoldCodeLine
    \/ Fold3Line
    \/ ConvertStart
    \/ ResolveTag
    \/ RewriteLine
    \/ ConvertReturn

SpecFence == InitFence /\ [][NextFence]_vars

(***************************************************************************)
(* The depth resolution of both convertToMarkdown and the tag walk of the  *)
(* folding provider on documents of an opening tag, its closing tag, a     *)
(* second opening tag and rules.                                           *)
(***************************************************************************)
MaxRuleLines == 4
OpenB == <<"<", "b", ">">>
RuleCatalog == {OpenA, CloseA, OpenB, Rule}
RuleDocs == Docs(RuleCatalog, MaxRuleLines)

InitRules ==
    /\ pc \in {"convertToMarkdown", "extConvertToMarkdown", "provideFoldingRanges"}
    /\ text \in RuleDocs
    /\ NoCalls
    /\ NoMaskCall

NextRules ==
    \/ ConvertStart
    \/ ResolveTag
    \/ RewriteLine
    \/ ConvertReturn
    \/ ExtStart
    \/ ExtResolveTag
    \/ FoldStart
    \/ FoldTag

SpecRules == InitRules /\ [][NextRules]_vars

(***************************************************************************)
(* The structure extractors on documents of rule-like lines and fences.    *)
(***************************************************************************)
TwoDashes == <<"-", "-">>
SpacedRule == <<"-", " ", "-", " ", "-">>
MixedRule == <<"-", "*", "_">>
StarRule == <<" ", "*", "*", "*", " ">>

MaxHrLines == 3
HrCatalog == {TwoDashes, Rule, SpacedRule, MixedRule, StarRule, BacktickFence}
HrDocs == Docs(HrCatalog, MaxHrLines)

InitHr ==
    /\ pc \in {"parseDocumentText", "parseDocument"}
    /\ text \in HrDocs
    /\ NoCalls
    /\ NoMaskCall

NextHr == ParseLine \/ ExtParseLine

SpecHr == InitHr /\ [][NextHr]_vars

(***************************************************************************)
(* beautifyDocument, one line per step; the replacement text it returns is *)
(* applied to the document, and the document is formatted again.           *)
(***************************************************************************)
BeautifyLine ==
    /\ pc = "beautifyDocument"
    /\ beauty.i < Len(text)
    /\ beauty' = BeautifyLineStep(beauty, text)
    /\ UNCHANGED <<pc, fold3, beauty3, edits, calls>>
    /\ UNCHANGED docVars
    /\ UNCHANGED maskVars
    /\ UNCHANGED attrVars
    /\ UNCHANGED previewVars

\* edits.push(vscode.TextEdit.replace(fullRange, result.join('\n'))); return edits
BeautifyReturn ==
    /\ pc = "beautifyDocument"
    /\ beauty.i = Len(text)
    /\ edits' = Append(edits, Join(beauty.result))
    /\ pc' = "beautified"
    /\ UNCHANGED <<fold3, beauty, beauty3, calls>>
    /\ UNCHANGED docVars
    /\ UNCHANGED maskVars
    /\ UNCHANGED attrVars
    /\ UNCHANGED previewVars

Beautify3Line ==
    /\ pc = "beautifyDocument3"
    /\ beauty3.i < Len(text)
    /\ beauty3' = Beautify3LineStep(beauty3, text)
    /\ UNCHANGED <<pc, fold3, beauty, edits, calls>>
    /\ UNCHANGED docVars
    /\ UNCHANGED maskVars
    /\ UNCHANGED attrVars
    /\ UNCHANGED previewVars

\* return [vscode.TextEdit.replace(fullRange, result.join('\n'))]
Beautify3Return ==
    /\ pc = "beautifyDocument3"
    /\ beauty3.i = Len(text)
    /\ edits' = Append(edits, Join(beauty3.result))
    /\ pc' = "beautified3"
    /\ UNCHANGED <<fold3, beauty, beauty3, calls>>
    /\ UNCHANGED docVars
    /\ UNCHANGED maskVars
    /\ UNCHANGED attrVars
    /\ UNCHANGED previewVars

MaxFormats == 2

\* The editor replaces the whole document by the returned text and the
\* formatter is called on the new document: document.getText().split(/\r?\n/).
FormatAgain ==
    /\ pc \in {"beautified", "beautified3"}
    /\ Len(edits) < MaxFormats
    /\ text' = SplitLines(edits[Len(edits)])
    /\ beauty' = NewBeautify
    /\ beauty3' = NewBeautify3
    /\ pc' = IF pc = "beautified" THEN "beautifyDocument" ELSE "beautifyDocument3"
    /\ UNCHANGED <<parse, extParse, conv, fold, claude, ext, markdown, fold3, edits, calls>>
    /\ UNCHANGED maskVars
    /\ UNCHANGED attrVars
    /\ UNCHANGED previewVars

HashSpace == <<"#", " ">>
Indented == <<" ", "x">>
Blank == << >>

MaxBeautifyLines == 3
BeautifyCatalog == {OpenA, CloseA, HashSpace, HeaderH, Indented, Blank, BacktickFence}
BeautifyDocs == Docs(BeautifyCatalog, MaxBeautifyLines)

InitBeautify ==
    /\ pc \in {"beautifyDocument", "beautifyDocument3"}
    /\ text \in BeautifyDocs
    /\ NoCalls
    /\ NoMaskCall

NextBeautify ==
    \/ BeautifyLine
    \/ BeautifyReturn
    \/ Beautify3Line
    \/ Beautify3Return
    \/ FormatAgain

SpecBeautify == InitBeautify /\ [][NextBeautify]_vars

(***************************************************************************)
(* A sequence of calls of parseDocumentText and convertToMarkdown on       *)
(* several texts: the locals of a call stay where the call left them, and  *)
(* each new call declares its own.                                         *)
(***************************************************************************)
MaxCalls == 3
CallTexts == { << OpenA >>, << OpenA, Rule, OpenA >>, << HeaderH, CloseA >> }

Invoke ==
    /\ pc = "idle"
    /\ Len(calls) < MaxCalls
    /\ \E t \in CallTexts, fn \in {"callParseDocumentText", "convertToMarkdown"} :
          /\ text' = t
          /\ pc' = fn
    /\ UNCHANGED <<parse, extParse, conv, fold, claude, ext, markdown>>
    /\ UNCHANGED maskVars
    /\ UNCHANGED attrVars
    /\ UNCHANGED previewVars
    /\ UNCHANGED editorVars

\* ParseStart that keeps the arrays of the previous call.
ParseStart_KeepLocals ==
    /\ pc = "callParseDocumentText"
    /\ parse' = [parse EXCEPT !.i = 0, !.inCodeBlock = FALSE]
    /\ pc' = "parseDocumentText"
    /\ UNCHANGED <<text, extParse, conv, fold, claude, ext, markdown>>
    /\ UNCHANGED maskVars
    /\ UNCHANGED attrVars
    /\ UNCHANGED previewVars
    /\ UNCHANGED editorVars

\* const xmlTags = []; const headers = []; const horizontalRules = []; let inCodeBlock = false
ParseStart ==
    /\ pc = "callParseDocumentText"
    /\ parse' = NewParse
    /\ pc' = "parseDocumentText"
    /\ UNCHANGED <<text, extParse, conv, fold, claude, ext, markdown>>
    /\ UNCHANGED maskVars
    /\ UNCHANGED attrVars
    /\ UNCHANGED previewVars
    /\ UNCHANGED editorVars

\* return { xmlTags, headers, horizontalRules }
ParseReturn ==
    /\ pc = "parseDocumentText"
    /\ parse.i = Len(text)
    /\ calls' = Append(calls, [fn |-> "parseDocumentText", text |-> text,
                               result |-> Structure(parse)])
    /\ pc' = "idle"
    /\ UNCHANGED <<fold3, beauty, beauty3, edits>>
    /\ UNCHANGED docVars
    /\ UNCHANGED maskVars
    /\ UNCHANGED attrVars
    /\ UNCHANGED previewVars

\* The caller has the string convertToMarkdown returned.
ConvertReturned ==
    /\ pc = "done"
    /\ calls' = Append(calls, [fn |-> "convertToMarkdown", text |-> text,
                               result |-> markdown])
    /\ pc' = "idle"
    /\ UNCHANGED <<fold3, beauty, beauty3, edits>>
    /\ UNCHANGED docVars
    /\ UNCHANGED maskVars
    /\ UNCHANGED attrVars
    /\ UNCHANGED previewVars

InitCalls ==
    /\ pc = "idle"
    /\ text = << >>
    /\ NoCalls
    /\ NoMaskCall

NextCalls ==
    \/ Invoke
    \/ ParseStart
    \/ ParseLine
    \/ ParseReturn
    \/ ConvertStart
    \/ ResolveTag
    \/ RewriteLine
    \/ ConvertReturn
    \/ ConvertReturned

SpecCalls == InitCalls /\ [][NextCalls]_vars

(***************************************************************************)
(* Vocabulary of the properties, defined on the text of the document alone *)
(***************************************************************************)

SkipSpaces(s) ==
    LET S == {j \in 1..Len(s) : s[j] # " "}
    IN  IF S = {} THEN << >> ELSE SubSeq(s, Least(S), Len(s))

\* The length of the run of the first character at the start of t.
RunLen(t) ==
    IF t = << >> THEN 0
    ELSE LET S == {j \in 1..Len(t) : t[j] # t[1]}
         IN  IF S = {} THEN Len(t) ELSE Least(S) - 1

Hashes(s) == IF s # << >> /\ s[1] = "#" THEN RunLen(s) ELSE 0

\* A fence line: optional spaces, then three or more backticks or tildes.
IsFenceLine(s) ==
    LET t == SkipSpaces(s)
    IN  t # << >> /\ t[1] \in {BT, "~"} /\ RunLen(t) >= 3

\* Line ln (from 0) is a fence line or follows an odd number of fence lines.
InCode(lines, ln) ==
    \/ IsFenceLine(lines[ln + 1])
    \/ Cardinality({j \in 1..ln : IsFenceLine(lines[j])}) % 2 = 1

\* The fence left open by the first n lines when a block is closed only by a
\* line of the same character, at least as long, with nothing else on it.
NoFence == [ch |-> "", len |-> 0]

RECURSIVE OpenFence(_, _)
OpenFence(lines, n) ==
    IF n = 0 THEN NoFence
    ELSE LET prev == OpenFence(lines, n - 1)
             t == SkipSpaces(lines[n])
             rest == SubSeq(t, RunLen(t) + 1, Len(t))
         IN  IF ~IsFenceLine(lines[n]) THEN prev
             ELSE IF prev = NoFence THEN [ch |-> t[1], len |-> RunLen(t)]
             ELSE IF t[1] = prev.ch /\ RunLen(t) >= prev.len /\ SkipSpaces(rest) = << >>
             THEN NoFence
             ELSE prev

StrictInCode(lines, ln) ==
    \/ OpenFence(lines, ln) # NoFence
    \/ IsFenceLine(lines[ln + 1])

\* A horizontal rule: three or more of - * _ between optional spaces.
IsRuleLine(s) ==
    LET t == SkipSpaces(s)
        S == {j \in 1..Len(t) : t[j] \notin {"-", "*", "_"}}
        run == IF S = {} THEN Len(t) ELSE Least(S) - 1
    IN  run >= 3 /\ SkipSpaces(SubSeq(t, run + 1, Len(t))) = << >>

\* A line that is one inline code span: `...` with no backtick inside.
IsCodeSpan(s) ==
    /\ Len(s) >= 3
    /\ s[1] = BT
    /\ s[Len(s)] = BT
    /\ \A j \in 2..(Len(s) - 1) : s[j] # BT

IsPrefix(a, b) == Len(a) <= Len(b) /\ SubSeq(b, 1, Len(a)) = a

\* a is b with some elements left out.
RECURSIVE IsSubseq(_, _)
IsSubseq(a, b) ==
    IF a = << >> THEN TRUE
    ELSE IF b = << >> THEN FALSE
    ELSE IF Head(a) = Head(b) THEN IsSubseq(Tail(a), Tail(b))
    ELSE IsSubseq(a, Tail(b))

\* The lines Keep holds of, in their order.
Select(lines, Keep(_, _)) ==
    LET kept == {ln \in 0..(Len(lines) - 1) : Keep(lines, ln)}
        Rank(ln) == Cardinality({m \in kept : m <= ln})
    IN  [r \in 1..Cardinality(kept) |-> lines[(CHOOSE ln \in kept : Rank(ln) = r) + 1]]

\* The tags of the document in the order of the text.
Before(x, y) == x.line < y.line \/ (x.line = y.line /\ x.startIndex < y.startIndex)
Tokens(lines) == SortSeq(parseDocumentText(lines).xmlTags, Before)

\* Every opening tag is closed by its own closing tag, innermost first.
RECURSIVE WellNested(_, _, _)
WellNested(tokens, j, open) ==
    IF j > Len(tokens) THEN open = << >>
    ELSE IF tokens[j].isOpening THEN WellNested(tokens, j + 1, Append(open, tokens[j].name))
    ELSE IF tokens[j].isClosing
    THEN /\ open # << >>
         /\ open[Len(open)] = tokens[j].name
         /\ WellNested(tokens, j + 1, SubSeq(open, 1, Len(open) - 1))
    ELSE WellNested(tokens, j + 1, open)

WellFormed(lines) == WellNested(Tokens(lines), 1, << >>)

\* The opening and self-closing tags met while no tag is open.
RECURSIVE TopLevel(_, _, _)
TopLevel(tokens, j, depth) ==
    IF j > Len(tokens) THEN 0
    ELSE IF tokens[j].isOpening
    THEN (IF depth = 0 THEN 1 ELSE 0) + TopLevel(tokens, j + 1, depth + 1)
    ELSE IF tokens[j].isClosing THEN TopLevel(tokens, j + 1, depth - 1)
    ELSE (IF depth = 0 THEN 1 ELSE 0) + TopLevel(tokens, j + 1, depth)

TopLevelTags(lines) == TopLevel(Tokens(lines), 1, 0)

\* tags[j] is an opening tag with no closing tag of its name after it in the text.
Unclosed(tags, j) ==
    /\ tags[j].isOpening
    /\ ~\E c \in 1..Len(tags) :
          tags[c].isClosing /\ tags[c].name = tags[j].name /\ Before(tags[j], tags[c])

OnStack(tagStack, tag) ==
    \E j \in 1..Len(tagStack) : tagStack[j] = [name |-> tag.name, line |-> tag.line]

NoNameOnStack(tagStack, name) == \A j \in 1..Len(tagStack) : tagStack[j].name # name

\* A horizontal rule lies above the tag and below the top of the stack.
RuleAbove(lines, tagStack, tag) ==
    \E h \in 0..(Len(lines) - 1) :
        /\ IsRuleLine(lines[h + 1]) /\ ~InCode(lines, h)
        /\ h < tag.line
        /\ (tagStack = << >> \/ h > tagStack[Len(tagStack)].line)

\* Among the first k tags, a tag after tags[j] lies below a rule that lies below tags[j].
RuleCut(lines, tags, j, k) ==
    \E h \in 0..(Len(lines) - 1) :
        /\ IsRuleLine(lines[h + 1]) /\ ~InCode(lines, h)
        /\ h > tags[j].line
        /\ \E u \in (j + 1)..k : tags[u].line > h

ConvRewriting ==
    /\ pc \in {"resolve", "rewrite"}
    /\ conv.k = Len(conv.structure.xmlTags)
    /\ conv.i < Len(text)

ConvResolving == pc = "resolve" /\ conv.k < Len(conv.structure.xmlTags)
FoldWalking == pc = "foldTags" /\ fold.k < Len(fold.structure.xmlTags)
ClaudeWalking == pc = "convertClaudeMdToMarkdown" /\ claude.i < Len(text)

(***************************************************************************)
(* Properties                                                              *)
(***************************************************************************)
\* C1: unmasking what maskCodeContent returned for a line without \x00 gives
\* the line back, whatever the arrangement of backtick spans.
C1_RoundTrip == pc = "unmasked" => unmasked = line

\* C2: a step of either transformer on a fence line or a line inside a fenced
\* block appends exactly that line to the output, no step changes what was
\* already output, and the returned text holds the code lines in their order.
C2_CodeLinesVerbatim ==
    [][/\ ConvRewriting =>
            /\ IsPrefix(conv.result, conv'.result)
            /\ InCode(text, conv.i) => conv'.result = Append(conv.result, text[conv.i + 1])
       /\ ClaudeWalking =>
            /\ IsPrefix(claude.output, claude'.output)
            /\ StrictInCode(text, claude.i) =>
                   claude'.output = Append(claude.output, text[claude.i + 1])
       /\ (pc = "rewrite" /\ pc' = "done") =>
            IsSubseq(Select(text, InCode), SplitLines(markdown'))
       /\ (pc = "convertClaudeMdToMarkdown" /\ pc' = "done") =>
            IsSubseq(Select(text, StrictInCode), SplitLines(markdown'))]_vars

\* A block opened by backticks holds a tag line and a tilde fence, and
\* convertClaudeMdToMarkdown returned the three lines as they were.
C2_TagInsideFence ==
    /\ pc = "done"
    /\ claude.i = Len(text)
    /\ text = << BacktickFence, OpenTDouble, TildeFence >>
    /\ SplitLines(markdown) = text

\* C3: parseDocumentText records no tag, header or horizontal rule on a fence
\* line or on a line inside a fenced block.
C3_NoStructureInCode ==
    pc = "parseDocumentText" =>
        /\ \A j \in 1..Len(parse.xmlTags) : ~InCode(text, parse.xmlTags[j].line)
        /\ \A j \in 1..Len(parse.headers) : ~InCode(text, parse.headers[j].line)
        /\ \A j \in 1..Len(parse.horizontalRules) : ~InCode(text, parse.horizontalRules[j])

\* The tag before the fence is recorded, the tag inside the block is not.
C3_TagInsideBlock ==
    /\ pc = "parseDocumentText"
    /\ parse.i = Len(text)
    /\ text = << OpenA, BacktickFence, OpenA >>
    /\ Len(parse.xmlTags) = 1
    /\ parse.xmlTags[1].line = 0

\* C4: neither extractor records a tag on a line that is one inline code span.
C4_NoTagInCodeSpan ==
    \A ln \in 0..(Len(text) - 1) :
        (IsCodeSpan(text[ln + 1]) /\ ~InCode(text, ln)) =>
            /\ \A j \in 1..Len(parse.xmlTags) : parse.xmlTags[j].line # ln
            /\ \A j \in 1..Len(extParse.xmlTags) : extParse.xmlTags[j].line # ln

\* C5: the header convertToMarkdown emits for a tag line starts with exactly
\* min(d + 2, 6) '#' characters, d the depth recorded for the line, then a
\* space; the level is between 2 and 6.
C5_HeaderLevel ==
    [][(/\ ConvRewriting
        /\ ~InCode(text, conv.i)
        /\ conv.i \notin conv.tagEndLines
        /\ conv.i \in DOMAIN conv.tagDepthMap) =>
            LET d == conv.tagDepthMap[conv.i]
                header == conv'.result[Len(conv.result) + 1]
            IN  /\ Len(conv'.result) > Len(conv.result)
                /\ Hashes(header) = (IF d + 2 <= 6 THEN d + 2 ELSE 6)
                /\ Hashes(header) >= 2
                /\ Hashes(header) <= 6
                /\ header[Hashes(header) + 1] = " "]_vars

\* A tag recorded at depth 5 or more got a header of level 6.
C5_ClampedHeader ==
    /\ pc = "done"
    /\ \E ln \in DOMAIN conv.tagDepthMap :
          conv.tagDepthMap[ln] >= 5 /\ ln \notin conv.tagEndLines
    /\ \E j \in 1..Len(conv.result) : Hashes(conv.result[j]) = 6

\* C6: for a well-formed document (no line of the catalog is a Markdown
\* header), convertToMarkdown emits as many level-2 headers as the document
\* has tags enclosed in no other tag.
C6_TopLevelHeaders ==
    (pc = "done" /\ WellFormed(text)) =>
        Cardinality({j \in 1..Len(conv.result) : Hashes(conv.result[j]) = 2})
            = TopLevelTags(text)

\* C7: an opening tag with one attribute, a text line and the closing tag
\* come out of either transformer as four lines: the level-2 header with
\* (k="v"), an empty line, the text line, an empty line.
C7_ThreeLineExample ==
    (/\ pc = "done"
     /\ Len(text) = 3
     /\ text[1] \in {OpenTDouble, OpenTSingle}
     /\ text[2] = Plain
     /\ text[3] = CloseT) =>
        SplitLines(markdown) =
            << <<"#", "#", " ", "t", " ", "(", "k", "=", DQ, "v", DQ, ")">>, << >>, Plain, << >> >>

\* C8: currentDepth never goes below 0 in the depth resolution of either
\* convertToMarkdown.
C8_DepthNonNegative == conv.currentDepth >= 0 /\ ext.currentDepth >= 0

\* More closing than opening tags have been resolved and the depth is 0.
C8_MoreClosings ==
    /\ pc = "resolve"
    /\ conv.k >= 2
    /\ Cardinality({j \in 1..conv.k : conv.structure.xmlTags[j].isClosing})
         > Cardinality({j \in 1..conv.k : conv.structure.xmlTags[j].isOpening})
    /\ conv.currentDepth = 0

\* Every line that is one closing tag is in the structure as a closing tag.
ClosingLinesRecorded(structure) ==
    \A ln \in 0..(Len(text) - 1) :
        \A name \in {"a", "b"} :
            (text[ln + 1] = <<"<", "/", name, ">">> /\ ~InCode(text, ln)) =>
                \E j \in 1..Len(structure.xmlTags) :
                    /\ structure.xmlTags[j].isClosing
                    /\ structure.xmlTags[j].name = << name >>
                    /\ structure.xmlTags[j].line = ln

\* The folding provider on a closing tag no entry of its stack is named after.
FoldIgnoresUnmatched ==
    (/\ FoldWalking
     /\ fold.structure.xmlTags[fold.k + 1].isClosing
     /\ NoNameOnStack(fold.tagStack, fold.structure.xmlTags[fold.k + 1].name)) =>
        /\ fold'.ranges = fold.ranges
        /\ fold'.tagStack = fold.tagStack

\* C9 (as stated): a closing tag whose name is not on the stack is recorded by
\* parseDocumentText, leaves currentDepth and tagStack of the depth resolution
\* unchanged, and gets no fold range and leaves the fold stack unchanged.
C9_UnmatchedClosingIgnored ==
    [][/\ ConvResolving => ClosingLinesRecorded(conv.structure)
       /\ FoldWalking => ClosingLinesRecorded(fold.structure)
       /\ (/\ ConvResolving
           /\ conv.structure.xmlTags[conv.k + 1].isClosing
           /\ NoNameOnStack(conv.tagStack, conv.structure.xmlTags[conv.k + 1].name)) =>
              /\ conv'.currentDepth = conv.currentDepth
              /\ conv'.tagStack = conv.tagStack
       /\ FoldIgnoresUnmatched]_vars

\* C9 (amended): the same, except that the depth resolution first resets
\* currentDepth to 0 and empties tagStack when a horizontal rule lies above the
\* tag and below the top of the stack.
C9_UnmatchedClosingResets ==
    [][/\ ConvResolving => ClosingLinesRecorded(conv.structure)
       /\ FoldWalking => ClosingLinesRecorded(fold.structure)
       /\ (/\ ConvResolving
           /\ conv.structure.xmlTags[conv.k + 1].isClosing
           /\ NoNameOnStack(conv.tagStack, conv.structure.xmlTags[conv.k + 1].name)) =>
              IF RuleAbove(text, conv.tagStack, conv.structure.xmlTags[conv.k + 1])
              THEN conv'.currentDepth = 0 /\ conv'.tagStack = << >>
              ELSE conv'.currentDepth = conv.currentDepth /\ conv'.tagStack = conv.tagStack
       /\ FoldIgnoresUnmatched]_vars

\* An unmatched closing tag has just been resolved with a tag still open.
C9_UnmatchedResolved ==
    /\ pc = "resolve"
    /\ conv.k >= 2
    /\ conv.structure.xmlTags[conv.k].isClosing
    /\ conv.structure.xmlTags[conv.k].name = <<"b">>
    /\ conv.currentDepth >= 1
    /\ conv.tagStack # << >>

\* The folding provider keeps every unclosed opening tag on its stack and
\* emits no range for it.
FoldKeepsUnclosed ==
    pc = "foldTags" =>
        \A j \in 1..fold.k :
            Unclosed(fold.structure.xmlTags, j) =>
                /\ OnStack(fold.tagStack, fold.structure.xmlTags[j])
                /\ \A r \in 1..Len(fold.ranges) :
                      fold.ranges[r].start = fold.structure.xmlTags[j].line =>
                          \E o \in 1..fold.k :
                              /\ fold.structure.xmlTags[o].isOpening
                              /\ fold.structure.xmlTags[o].line = fold.structure.xmlTags[j].line
                              /\ ~Unclosed(fold.structure.xmlTags, o)

\* C10 (as stated): an opening tag with no later closing tag of its name gets
\* no fold range and stays on the stack of the depth resolution to the end.
C10_UnclosedThroughEnd ==
    /\ FoldKeepsUnclosed
    /\ pc \in {"resolve", "rewrite", "done"} =>
          \A j \in 1..conv.k :
              Unclosed(conv.structure.xmlTags, j) =>
                  OnStack(conv.tagStack, conv.structure.xmlTags[j])

\* C10 (amended): it gets no fold range, and it is on the stack of the depth
\* resolution, counted in currentDepth, exactly until a later tag is resolved
\* that lies below a horizontal rule below the opening tag.
C10_UnclosedUntilRule ==
    /\ FoldKeepsUnclosed
    /\ pc \in {"resolve", "rewrite", "done"} =>
          /\ conv.currentDepth = Len(conv.tagStack)
          /\ \A j \in 1..conv.k :
                Unclosed(conv.structure.xmlTags, j) =>
                    (OnStack(conv.tagStack, conv.structure.xmlTags[j])
                        <=> ~RuleCut(text, conv.structure.xmlTags, j, conv.k))

\* An unclosed tag, an unmatched closing tag, a second tag recorded at depth 1.
C10_UnclosedCounted ==
    /\ pc = "resolve"
    /\ text = << OpenA, CloseB, OpenA >>
    /\ conv.k = 3
    /\ Len(conv.tagStack) = 2
    /\ conv.tagDepthMap[2] = 1

\* C11: while a block is open in convertClaudeMdToMarkdown, a line closes it
\* only if it is a fence of the character of the opening fence and at least
\* as long; a fence of the other character or a shorter one leaves it open,
\* and a block with no matching fence after it is open when the loop ends.
C11_StrictFenceClose ==
    [][(ClaudeWalking /\ claude.inFencedCodeBlock) =>
          LET open == OpenFence(text, claude.i)
              t == SkipSpaces(text[claude.i + 1])
              Matches(s) ==
                  /\ IsFenceLine(s)
                  /\ SkipSpaces(s)[1] = open.ch
                  /\ RunLen(SkipSpaces(s)) >= open.len
          IN  /\ open # NoFence
              /\ ~claude'.inFencedCodeBlock => Matches(text[claude.i + 1])
              /\ (IsFenceLine(text[claude.i + 1]) /\ ~Matches(text[claude.i + 1])) =>
                     claude'.inFencedCodeBlock
              /\ (\A j \in (claude.i + 1)..Len(text) : ~Matches(text[j])) =>
                     \A j \in (claude.i + 1)..Len(text) : StrictInCode(text, j - 1)]_vars

\* A block opened by four backticks is still open after a fence of three
\* backticks and a fence of tildes.
C11_ShorterAndOtherFence ==
    /\ pc = "done"
    /\ claude.i = Len(text)
    /\ text = << LongFence, BacktickFence, TildeFence >>
    /\ claude.inFencedCodeBlock
    /\ SplitLines(markdown) = text

\* The fence line s closes a block opened by the fence line o under the
\* rule of the specification: same character, at least the same run length.
FenceCloses(o, s) ==
    /\ IsFenceLine(s)
    /\ SkipSpaces(s)[1] = SkipSpaces(o)[1]
    /\ RunLen(SkipSpaces(s)) >= RunLen(SkipSpaces(o))

\* The range r starts at a fence line and ends at the first later fence line
\* that closes it.
CodeRangeOK(lines, r) ==
    /\ IsFenceLine(lines[r.start + 1])
    /\ r.end > r.start
    /\ FenceCloses(lines[r.start + 1], lines[r.end + 1])
    /\ \A j \in (r.start + 1)..(r.end - 1) : ~FenceCloses(lines[r.start + 1], lines[j + 1])

\* C12: every range the folding providers push for a fenced code block
\* starts at a fence line and ends at the first later fence line of the same
\* fence character and at least the same run length.
C12_CodeRangeEndsAtMatchingFence ==
    [][/\ (pc' = "foldCode" /\ Len(fold'.ranges) > Len(fold.ranges)) =>
              CodeRangeOK(text, fold'.ranges[Len(fold'.ranges)])
       /\ (/\ pc = "provideFoldingRanges3"
           /\ Len(fold3'.ranges) > Len(fold3.ranges)
           /\ IsFenceLine(text[fold3.i + 1])) =>
              CodeRangeOK(text, fold3'.ranges[Len(fold3'.ranges)])]_vars

\* The last fence line of the document (from 1), or 0.
LastFence(lines) ==
    LET S == {j \in 1..Len(lines) : IsFenceLine(lines[j])}
    IN  IF S = {} THEN 0 ELSE Max(S)

\* The last fence line opens a block: nothing is open before it.
LastFenceOpens(lines) ==
    /\ LastFence(lines) > 0
    /\ OpenFence(lines, LastFence(lines) - 1) = NoFence

\* C13: when the last fence line of the document opens a block that is never
\* closed, no fold range starts at that fence, and convertToMarkdown's
\* output ends with the lines from that fence to the end, unchanged.
C13_UnclosedFence ==
    LastFenceOpens(text) =>
        LET L == LastFence(text)
            n == Len(text) - L + 1
            R == conv.result
        IN  /\ \A j \in 1..Len(fold.ranges) : fold.ranges[j].start # L - 1
            /\ \A j \in 1..Len(fold3.ranges) : fold3.ranges[j].start # L - 1
            /\ pc = "done" =>
                  /\ Len(R) >= n
                  /\ SubSeq(R, Len(R) - n + 1, Len(R)) = SubSeq(text, L, Len(text))

\* C16: every range in the result of provideFoldingRanges, of either
\* variant, whether pushed for a tag pair, a header section or a code block,
\* has its end line strictly after its start line.
C16_EndAfterStart ==
    /\ \A j \in 1..Len(fold.ranges) : fold.ranges[j].end > fold.ranges[j].start
    /\ \A j \in 1..Len(fold3.ranges) : fold3.ranges[j].end > fold3.ranges[j].start

\* Two headers on adjacent lines: the first gets no range, the second folds
\* the line below it.
C16_AdjacentHeaders ==
    /\ pc = "foldCode"
    /\ fold.i = Len(text)
    /\ text = << HeaderH, HeaderH, Plain >>
    /\ fold.ranges = << [start |-> 1, end |-> 2] >>

\* A recorded rule line lies strictly between the line of the top of the
\* stack (0 when the stack is empty) and the line of the tag.
RuleBetween(hrLines, tagStack, tag) ==
    LET top == IF tagStack = << >> THEN 0 ELSE tagStack[Len(tagStack)].line
    IN  \E j \in 1..Len(hrLines) : top < hrLines[j] /\ hrLines[j] < tag.line

\* The depth and the stack after a tag is handled from depth d and stack stk.
AfterTag(d, stk, tag) ==
    LET j == NearestMatch(stk, tag.name)
    IN  IF tag.isOpening
        THEN [currentDepth |-> d + 1,
              tagStack |-> Append(stk, [name |-> tag.name, line |-> tag.line])]
        ELSE IF tag.isClosing /\ j > 0
        THEN [currentDepth |-> Max2(0, d - 1), tagStack |-> Splice(stk, j)]
        ELSE [currentDepth |-> d, tagStack |-> stk]

\* C20: each step of the depth resolution of convertToMarkdown, in part_000
\* and in src/extension.ts, handles the tag from depth 0 and an empty stack
\* if a recorded rule lies strictly between the top of the stack (or 0) and
\* the tag, and from the depth and the stack as they were otherwise.
C20_ResetBetweenTopAndTag ==
    [][/\ ConvResolving =>
             LET tag == conv.structure.xmlTags[conv.k + 1]
                 hit == RuleBetween(conv.structure.horizontalRules, conv.tagStack, tag)
                 after == IF hit THEN AfterTag(0, << >>, tag)
                          ELSE AfterTag(conv.currentDepth, conv.tagStack, tag)
             IN  /\ conv'.currentDepth = after.currentDepth
                 /\ conv'.tagStack = after.tagStack
       /\ (pc = "extResolve" /\ ext.k < Len(ext.structure.xmlTags)) =>
             LET tag == ext.structure.xmlTags[ext.k + 1]
                 hit == RuleBetween(ext.structure.horizontalRules, ext.tagStack, tag)
                 after == IF hit THEN AfterTag(0, << >>, tag)
                          ELSE AfterTag(ext.currentDepth, ext.tagStack, tag)
             IN  /\ ext'.currentDepth = after.currentDepth
                 /\ ext'.tagStack = after.tagStack]_vars

\* The second <a> below a rule was handled from an empty stack.
C20_ResetBelowRule ==
    /\ pc = "resolve"
    /\ text = << OpenA, Rule, OpenA >>
    /\ conv.k = 2
    /\ conv.currentDepth = 1
    /\ conv.tagStack = << [name |-> <<"a">>, line |-> 2] >>

\* tags[u] is an opening or self-closing tag inside the body of the open tag
\* tags[t] (after its opening line, before the line of its closing tag),
\* below a rule that lies inside that body.
InBodyBelowRule(lines, tags, t, u) ==
    /\ t < u
    /\ tags[t].isOpening
    /\ tags[u].isOpening \/ tags[u].isSelfClosing
    /\ \E c \in (u + 1)..Len(tags) :
          /\ tags[c].isClosing
          /\ tags[c].name = tags[t].name
          /\ tags[c].line > tags[u].line
          /\ \A x \in (t + 1)..(c - 1) : tags[x].name # tags[t].name
    /\ \E h \in 0..(Len(lines) - 1) :
          /\ IsRuleLine(lines[h + 1])
          /\ tags[t].line < h
          /\ h < tags[u].line

\* C14: in the depth resolution of convertToMarkdown (part_000 and
\* src/extension.ts), a tag that follows a rule inside the body of an open
\* tag is recorded with depth at least 1, and the open tag is still on the
\* stack when that tag has been handled.
C14_RuleInsideBody ==
    /\ (pc = "resolve" /\ conv.k >= 1) =>
          \A t \in 1..(conv.k - 1) :
              InBodyBelowRule(text, conv.structure.xmlTags, t, conv.k) =>
                  /\ conv.tagDepthMap[conv.structure.xmlTags[conv.k].line] >= 1
                  /\ OnStack(conv.tagStack, conv.structure.xmlTags[t])
    /\ (pc = "extResolve" /\ ext.k >= 1) =>
          \A t \in 1..(ext.k - 1) :
              InBodyBelowRule(text, ext.structure.xmlTags, t, ext.k) =>
                  /\ ext.tagDepthMap[ext.structure.xmlTags[ext.k].line] >= 1
                  /\ OnStack(ext.tagStack, ext.structure.xmlTags[t])

\* tags[u] is the first tag below a rule that lies below the line of tags[t].
FirstBelowRule(lines, tags, t, u) ==
    \E h \in 0..(Len(lines) - 1) :
        /\ IsRuleLine(lines[h + 1])
        /\ tags[t].line < h
        /\ h < tags[u].line
        /\ \A x \in (t + 1)..(u - 1) : tags[x].line < h

\* C14 (amended): a rule inside the body of an open tag forces the reset at
\* the first tag below it: that tag is recorded with depth 0, and once a tag
\* that follows the rule inside the body has been handled the open tag is
\* not on the stack.
C14_RuleInsideBodyResets ==
    /\ (pc = "resolve" /\ conv.k >= 1) =>
          \A t \in 1..(conv.k - 1) :
              InBodyBelowRule(text, conv.structure.xmlTags, t, conv.k) =>
                  /\ ~OnStack(conv.tagStack, conv.structure.xmlTags[t])
                  /\ FirstBelowRule(text, conv.structure.xmlTags, t, conv.k) =>
                         conv.tagDepthMap[conv.structure.xmlTags[conv.k].line] = 0
    /\ (pc = "extResolve" /\ ext.k >= 1) =>
          \A t \in 1..(ext.k - 1) :
              InBodyBelowRule(text, ext.structure.xmlTags, t, ext.k) =>
                  /\ ~OnStack(ext.tagStack, ext.structure.xmlTags[t])
                  /\ FirstBelowRule(text, ext.structure.xmlTags, t, ext.k) =>
                         ext.tagDepthMap[ext.structure.xmlTags[ext.k].line] = 0

\* <b> below the rule inside the body of <a> ... </a> was recorded at depth 0
\* and <a> left the stack.
C14_TagBelowRuleInBody ==
    /\ pc = "resolve"
    /\ text = << OpenA, Rule, OpenB, CloseA >>
    /\ conv.k = 3
    /\ conv.tagDepthMap[2] = 0
    /\ conv.tagStack = << [name |-> <<"b">>, line |-> 2] >>

\* s without a closing tag </name> at its end.
WithoutCloser(s, name) ==
    LET closer == <<"<", "/">> \o name \o <<">">>
        n == Len(s) - Len(closer)
    IN  IF n >= 0 /\ SubSeq(s, n + 1, Len(s)) = closer THEN SubSeq(s, 1, n) ELSE s

\* The output has a header line and, below it, the line c.
BeneathHeader(R, c) ==
    \E j \in 1..Len(R) : Hashes(R[j]) >= 2 /\ \E j2 \in (j + 1)..Len(R) : R[j2] = c

\* C19: when convertToMarkdown has returned, for every opening tag outside
\* code blocks that is followed on its line by non-blank content, the trimmed
\* content (for <tag>content</tag>, with or without the closing tag) is a
\* line of the output beneath a header.
C19_ContentBeneathHeader ==
    pc = "done" =>
        \A k \in 1..Len(conv.structure.xmlTags) :
            LET tag == conv.structure.xmlTags[k]
                s == text[tag.line + 1]
                content == Trim(SubSeq(s, tag.endIndex + 1, Len(s)))
            IN  (tag.isOpening /\ ~InCode(text, tag.line) /\ content # << >>) =>
                    \/ BeneathHeader(conv.result, content)
                    \/ BeneathHeader(conv.result, Trim(WithoutCloser(content, tag.name)))

\* Three or more repetitions of one character of - * _, with any spaces
\* between and around them, and nothing else.
IsSameCharRule(s) ==
    LET S == {j \in 1..Len(s) : s[j] # " "}
    IN  /\ Cardinality(S) >= 3
        /\ \E c \in {"-", "*", "_"} : \A j \in S : s[j] = c

\* C17: of the lines it has read, parseDocumentText (and parseDocument of
\* src/extension.ts) has recorded as horizontal rules exactly the lines
\* outside code blocks that consist of three or more repetitions of one
\* character of - * _, spaces allowed between and around them.
C17_RuleExactlySameChar ==
    /\ pc = "parseDocumentText" =>
          \A ln \in 0..(parse.i - 1) :
              (\E j \in 1..Len(parse.horizontalRules) : parse.horizontalRules[j] = ln)
                  <=> (~InCode(text, ln) /\ IsSameCharRule(text[ln + 1]))
    /\ pc = "parseDocument" =>
          \A ln \in 0..(extParse.i - 1) :
              (\E j \in 1..Len(extParse.horizontalRules) : extParse.horizontalRules[j] = ln)
                  <=> (~InCode(text, ln) /\ IsSameCharRule(text[ln + 1]))

\* C15: formatting the text beautifyDocument returned gives that text again,
\* for each variant of beautifyDocument.
C15_BeautifyIdempotent ==
    \A j \in 1..(Len(edits) - 1) : edits[j + 1] = edits[j]

\* C18: two calls of the same function (parseDocumentText, convertToMarkdown)
\* on the same text returned equal results, whatever calls came before or
\* between them.
C18_SameTextSameResult ==
    \A i, j \in 1..Len(calls) :
        (calls[i].fn = calls[j].fn /\ calls[i].text = calls[j].text) =>
            calls[i].result = calls[j].result

\* Three calls of parseDocumentText returned: the first and the third on one
\* text with tags and a rule, the second on another text with tags.
C18_CallBetween ==
    /\ Len(calls) = 3
    /\ \A j \in 1..3 : calls[j].fn = "parseDocumentText"
    /\ calls[1].text = << OpenA, Rule, OpenA >>
    /\ calls[2].text = << HeaderH, CloseA >>
    /\ calls[3].text = calls[1].text
    /\ Len(calls[3].result.xmlTags) = 2

\* stk2 is stk without the entry nearest the top that has the name; the
\* other entries are in their previous order.
RemovedNearest(stk, stk2, name) ==
    \E j \in 1..Len(stk) :
        /\ stk[j].name = name
        /\ \A k \in (j + 1)..Len(stk) : stk[k].name # name
        /\ stk2 = SubSeq(stk, 1, j - 1) \o SubSeq(stk, j + 1, Len(stk))

\* C21: a step that handles a closing tag whose name is on the stack removes
\* exactly the entry of that name nearest the top, in the depth resolution
\* of convertToMarkdown and in the tag walk of the folding provider.
C21_ClosingRemovesNearest ==
    [][/\ ConvResolving =>
             LET tag == conv.structure.xmlTags[conv.k + 1]
             IN  (tag.isClosing /\ ~NoNameOnStack(conv.tagStack, tag.name)) =>
                     RemovedNearest(conv.tagStack, conv'.tagStack, tag.name)
       /\ FoldWalking =>
             LET tag == fold.structure.xmlTags[fold.k + 1]
             IN  (tag.isClosing /\ ~NoNameOnStack(fold.tagStack, tag.name)) =>
                     RemovedNearest(fold.tagStack, fold'.tagStack, tag.name)]_vars

\* C21 (amended): as C21, except that the depth resolution empties the
\* stack instead when a recorded rule lies strictly between the line of the
\* top of the stack and the line of the closing tag.
C21_ClosingRemovesNearestOrResets ==
    [][/\ ConvResolving =>
             LET tag == conv.structure.xmlTags[conv.k + 1]
             IN  (tag.isClosing /\ ~NoNameOnStack(conv.tagStack, tag.name)) =>
                     IF RuleBetween(conv.structure.horizontalRules, conv.tagStack, tag)
                     THEN conv'.tagStack = << >>
                     ELSE RemovedNearest(conv.tagStack, conv'.tagStack, tag.name)
       /\ FoldWalking =>
             LET tag == fold.structure.xmlTags[fold.k + 1]
             IN  (tag.isClosing /\ ~NoNameOnStack(fold.tagStack, tag.name)) =>
                     RemovedNearest(fold.tagStack, fold'.tagStack, tag.name)]_vars

\* </a> was resolved with <a> and, above it, <b> on the stack: <b> stays.
C21_UnmatchedAboveStays ==
    /\ pc = "resolve"
    /\ text = << OpenA, OpenB, CloseA >>
    /\ conv.k = 3
    /\ conv.tagStack = << [name |-> <<"b">>, line |-> 1] >>

\* The position in stk of the entry nearest the top that has the name.
NearestNamed(stk, name) ==
    CHOOSE j \in 1..Len(stk) :
        stk[j].name = name /\ \A k \in (j + 1)..Len(stk) : stk[k].name # name

\* C22: a step of the tag walk of the folding provider on a closing tag that
\* finds an entry of its name appends the one range from the line of that
\* entry to the line of the tag if the tag lies on a later line, and no
\* other step of the walk changes the ranges; no range has equal ends; rules
\* play no part, although the depth resolution of convertToMarkdown empties
\* its stack at a closing tag that has a rule between the top of the stack
\* and itself.
C22_RangePerMatchedClosing ==
    [][/\ FoldWalking =>
             LET tag == fold.structure.xmlTags[fold.k + 1]
                 stk == fold.tagStack
             IN  /\ IF tag.isClosing /\ ~NoNameOnStack(stk, tag.name)
                    THEN LET e == stk[NearestNamed(stk, tag.name)]
                         IN  fold'.ranges =
                                 IF tag.line > e.line
                                 THEN Append(fold.ranges, [start |-> e.line, end |-> tag.line])
                                 ELSE fold.ranges
                    ELSE fold'.ranges = fold.ranges
                 /\ \A r \in 1..Len(fold'.ranges) : fold'.ranges[r].end > fold'.ranges[r].start
       /\ ConvResolving =>
             LET tag == conv.structure.xmlTags[conv.k + 1]
             IN  (/\ tag.isClosing
                  /\ conv.tagStack # << >>
                  /\ RuleBetween(conv.structure.horizontalRules, conv.tagStack, tag))
                     => conv'.tagStack = << >>]_vars

\* <a>, a rule and </a>: the tag walk has given the pair its range.
C22_RangeAcrossRule ==
    /\ pc = "foldTags"
    /\ text = << OpenA, Rule, CloseA >>
    /\ fold.k = 2
    /\ fold.ranges = << [start |-> 0, end |-> 2] >>

\* The header lines of a text as level and line: one to six # and a space.
HeaderLines(lines) ==
    {[level |-> Hashes(lines[j]), line |-> j - 1] :
         j \in {n \in 1..Len(lines) :
                    /\ Hashes(lines[n]) \in 1..6
                    /\ Len(lines[n]) > Hashes(lines[n])
                    /\ lines[n][Hashes(lines[n]) + 1] = " "}}

\* No line of the text is a fence line.
FenceFree(lines) == \A n \in 1..Len(lines) : ~IsFenceLine(lines[n])

\* The end of the section of header h among the headers hs.
SectionEnd(hs, h, lastLine) ==
    LET later == {g \in hs : g.line > h.line /\ g.level <= h.level}
    IN  IF later = {} THEN lastLine ELSE Least({g.line : g \in later}) - 1

\* Every header of hs has the one range to its section end if that end lies
\* below it, and no range otherwise.
HeaderRangesOK(hs, ranges, lastLine) ==
    \A h \in hs :
        LET e == SectionEnd(hs, h, lastLine)
            R == {r \in 1..Len(ranges) : ranges[r].start = h.line}
        IN  IF e > h.line
            THEN Cardinality(R) = 1 /\ \A r \in R : ranges[r].end = e
            ELSE R = {}

CodeHeadersIgnored(lines, ranges) ==
    LET outside == {h \in HeaderLines(lines) : ~InCode(lines, h.line)}
        inside == HeaderLines(lines) \ outside
    IN  /\ HeaderRangesOK(outside, ranges, Len(lines) - 1)
        /\ \A h \in inside : \A r \in 1..Len(ranges) : ranges[r].start # h.line

\* C24: in every folding provider a header line inside a fenced code block
\* neither starts a header range nor ends the range of a preceding header.
C24_CodeHeadersIgnored ==
    /\ (pc \in {"foldHeaders", "foldCode"} /\ fold.h = Len(fold.structure.headers)) =>
           CodeHeadersIgnored(text, fold.ranges)
    /\ (pc = "provideFoldingRanges3" /\ fold3.i = Len(text)) =>
           CodeHeadersIgnored(text, fold3.ranges)

\* An odd number of the first n lines are fence lines.
OddFences(lines, n) == Cardinality({j \in 1..n : IsFenceLine(lines[j])}) % 2 = 1

\* C25: after any number of lines, the in-code flag of parseDocumentText and
\* of parseDocument is the parity of the number of fence lines among them,
\* whatever the fence character, the run length or the info string.
C25_FlagIsFenceParity ==
    /\ pc = "parseDocumentText" => (parse.inCodeBlock <=> OddFences(text, parse.i))
    /\ pc = "parseDocument" => (extParse.inCodeBlock <=> OddFences(text, extParse.i))

\* Three fence lines of different character, length and info string: the
\* flag is set after the third.
C25_ThreeUnlikeFences ==
    /\ pc = "parseDocumentText"
    /\ text = << LongFence, TildeFence, InfoFence >>
    /\ parse.i = 3
    /\ parse.inCodeBlock

\* C26: the tag list parseDocumentText returned, which the depth resolution
\* of convertToMarkdown walks, is in document order: by line and, within a
\* line, by start index.
C26_TagsInDocumentOrder ==
    pc \in {"resolve", "rewrite"} =>
        \A j \in 1..Len(conv.structure.xmlTags) : \A k \in 1..Len(conv.structure.xmlTags) :
            j < k => Before(conv.structure.xmlTags[j], conv.structure.xmlTags[k])

(***************************************************************************)
(* Both transformers on documents with self-closing tags, with and without *)
(* a space before the closing slash, an opening tag, its closing tag and   *)
(* rules.                                                                  *)
(***************************************************************************)
SelfBSpace == <<"<", "b", " ", "/", ">">>

MaxSelfLines == 3
SelfCatalog == {OpenA, CloseA, SelfB, SelfBSpace, Rule}
SelfDocs == Docs(SelfCatalog, MaxSelfLines)

InitSelf ==
    /\ pc \in {"convertToMarkdown", "convertClaudeMdToMarkdown"}
    /\ text \in SelfDocs
    /\ NoCalls
    /\ NoMaskCall

NextSelf ==
    \/ ConvertStart
    \/ ResolveTag
    \/ RewriteLine
    \/ ConvertReturn
    \/ ClaudeLine
    \/ ClaudeReturn

SpecSelf == InitSelf /\ [][NextSelf]_vars

\* A line that is one self-closing tag: <, a name, attributes or spaces, />.
IsSelfClosingLine(s) ==
    LET t == Trim(s)
    IN  /\ Len(t) >= 4
        /\ t[1] = "<"
        /\ t[2] \in NameStart
        /\ t[Len(t) - 1] = "/"
        /\ t[Len(t)] = ">"
        /\ \A j \in 2..(Len(t) - 1) : t[j] \notin {"<", ">"}

\* C27: a step on a self-closing tag leaves the stack and the depth as they
\* were: in the depth resolution of convertToMarkdown, where the stack and
\* the depth are taken after the reset at rules of the same step, and in
\* convertClaudeMdToMarkdown on a line outside code that is one self-closing
\* tag, with or without a space before the slash.
C27_SelfClosingKeepsStack ==
    [][/\ ConvResolving =>
             LET tag == conv.structure.xmlTags[conv.k + 1]
             IN  tag.isSelfClosing =>
                     IF RuleBetween(conv.structure.horizontalRules, conv.tagStack, tag)
                     THEN conv'.tagStack = << >> /\ conv'.currentDepth = 0
                     ELSE /\ conv'.tagStack = conv.tagStack
                          /\ conv'.currentDepth = conv.currentDepth
       /\ (/\ ClaudeWalking
           /\ ~claude.inFencedCodeBlock
           /\ IsSelfClosingLine(text[claude.i + 1]))
              => claude'.tagStack = claude.tagStack]_vars

\* The extractor recorded a closing tag on line ln (from 0).
ClosingRecorded(tags, ln) == \E j \in 1..Len(tags) : tags[j].isClosing /\ tags[j].line = ln

\* C28: a step of the rewriting loop of convertToMarkdown on a line outside
\* code blocks that has a recorded closing tag appends one empty line to the
\* output and nothing else, matched or not, whatever else the line holds.
C28_ClosingLineBecomesEmpty ==
    [][(/\ ConvRewriting
        /\ ~InCode(text, conv.i)
        /\ ClosingRecorded(conv.structure.xmlTags, conv.i))
           => conv'.result = Append(conv.result, << >>)]_vars

\* An unmatched closing tag, then a line with an opening tag, content and a
\* closing tag: both lines have become empty lines.
C28_TwoClosingLines ==
    /\ pc = "rewrite"
    /\ text = << CloseB, InlineA >>
    /\ conv.i = 2
    /\ conv.result = << << >>, << >> >>

(***************************************************************************)
(* The beautifiers, one pass, on documents of opening, closing and         *)
(* self-closing tag lines, headers, blank lines, text and fences.          *)
(***************************************************************************)
IndentedOpenA == <<" ", "<", "a", ">">>
IndentedHeader == <<" ", "#", " ", "h">>

MaxIndentLines == 3
IndentCatalog ==
    {OpenA, IndentedOpenA, CloseA, SelfB, SelfBSpace, HeaderH, IndentedHeader, Blank,
     Indented, BacktickFence}
IndentDocs == Docs(IndentCatalog, MaxIndentLines)

InitIndent ==
    /\ pc \in {"beautifyDocument", "beautifyDocument3"}
    /\ text \in IndentDocs
    /\ NoCalls
    /\ NoMaskCall

NextIndent ==
    \/ BeautifyLine
    \/ BeautifyReturn
    \/ Beautify3Line
    \/ Beautify3Return

SpecIndent == InitIndent /\ [][NextIndent]_vars

\* n units of two spaces.
Units(n) == [j \in 1..(2 * n) |-> " "]

\* A line that is one closing tag: </, a name, >.
IsClosingLine(s) ==
    LET t == Trim(s)
    IN  /\ Len(t) >= 4
        /\ t[1] = "<" /\ t[2] = "/" /\ t[3] \in NameStart /\ t[Len(t)] = ">"
        /\ \A j \in 4..(Len(t) - 1) : t[j] \in NameChar

\* A line that is one opening tag: <, a name, attributes after a space if
\* any, >, and no slash before the >.
IsOpeningLine(s) ==
    LET t == Trim(s)
        N == {j \in 2..Len(t) : t[j] \notin NameChar}
    IN  /\ Len(t) >= 3
        /\ t[1] = "<" /\ t[2] \in NameStart /\ t[Len(t)] = ">"
        /\ t[Len(t) - 1] # "/"
        /\ \A j \in 2..(Len(t) - 1) : t[j] \notin {"<", ">"}
        /\ Least(N) = Len(t) \/ t[Least(N)] = " "

\* A header line: one to six #, a space and a title.
IsHeaderLine(s) ==
    LET t == Trim(s)
    IN  Hashes(t) \in 1..6 /\ Len(t) > Hashes(t) /\ t[Hashes(t) + 1] = " "

\* The effect the indentation rules give a line at depth d: the depth
\* after it and the emitted line.
IndentRule(s, d, d2, out) ==
    /\ d2 >= 0
    /\ IsClosingLine(s) => d2 = Max2(0, d - 1) /\ out = Units(Max2(0, d - 1)) \o Trim(s)
    /\ IsOpeningLine(s) => d2 = d + 1 /\ out = Units(d) \o Trim(s)
    /\ IsHeaderLine(s) => d2 = d /\ out = Trim(s)
    /\ Trim(s) = << >> => d2 = d /\ out = << >>

\* C29: every step of beautifyDocument, in both variants, leaves the depth
\* at 0 or more; outside code blocks a closing-tag line is emitted at
\* max(0, d - 1) units and leaves that depth, an opening-tag line is emitted
\* at d units and leaves d + 1, a header line is emitted without indentation
\* and a blank line as an empty line, both leaving the depth as it was.
C29_IndentRules ==
    [][/\ (pc = "beautifyDocument" /\ beauty.i < Len(text)) =>
             /\ beauty'.currentIndent >= 0
             /\ ~InCode(text, beauty.i) =>
                    /\ Len(beauty'.result) = Len(beauty.result) + 1
                    /\ IndentRule(text[beauty.i + 1], beauty.currentIndent,
                                  beauty'.currentIndent, beauty'.result[Len(beauty'.result)])
       /\ (pc = "beautifyDocument3" /\ beauty3.i < Len(text)) =>
             /\ beauty3'.depth >= 0
             /\ ~InCode(text, beauty3.i) =>
                    /\ Len(beauty3'.result) = Len(beauty3.result) + 1
                    /\ IndentRule(text[beauty3.i + 1], beauty3.depth,
                                  beauty3'.depth, beauty3'.result[Len(beauty3'.result)])]_vars

\* An opening tag, a second one and a closing tag: the closing tag is
\* emitted at one unit and the depth is back at 1.
C29_ClosingAtLowerDepth ==
    /\ pc = "beautifyDocument"
    /\ text = << OpenA, IndentedOpenA, CloseA >>
    /\ beauty.i = 3
    /\ beauty.currentIndent = 1
    /\ beauty.result = << OpenA, <<" ", " ">> \o OpenA, <<" ", " ">> \o CloseA >>

\* C30: in every beautifyDocument a step on a line outside code blocks that
\* is one self-closing tag, with or without a space before the slash, emits
\* the line at the current depth and leaves the depth as it was.
C30_SelfClosingKeepsDepth ==
    [][/\ (/\ pc = "beautifyDocument" /\ beauty.i < Len(text)
           /\ ~InCode(text, beauty.i)
           /\ IsSelfClosingLine(text[beauty.i + 1])) =>
             /\ beauty'.currentIndent = beauty.currentIndent
             /\ beauty'.result =
                    Append(beauty.result,
                           Units(beauty.currentIndent) \o Trim(text[beauty.i + 1]))
       /\ (/\ pc = "beautifyDocument3" /\ beauty3.i < Len(text)
           /\ ~InCode(text, beauty3.i)
           /\ IsSelfClosingLine(text[beauty3.i + 1])) =>
             /\ beauty3'.depth = beauty3.depth
             /\ beauty3'.result =
                    Append(beauty3.result,
                           Units(beauty3.depth) \o Trim(text[beauty3.i + 1]))]_vars

\* Line ln (from 0) lies strictly inside a code block: it is not a fence
\* line and an odd number of fence lines precede it.
InsideBlock(lines, ln) == OddFences(lines, ln) /\ ~IsFenceLine(lines[ln + 1])

\* C31: in both variants of beautifyDocument a step on a line strictly
\* between an opening fence line and the next fence line emits the line
\* unchanged and keeps the depth, and a step on a fence line keeps the
\* depth, so the depth after the closing fence is the depth before the
\* opening fence.
C31_CodeContentVerbatim ==
    [][/\ (pc = "beautifyDocument" /\ beauty.i < Len(text)) =>
             /\ InsideBlock(text, beauty.i) =>
                    /\ beauty'.result = Append(beauty.result, text[beauty.i + 1])
                    /\ beauty'.currentIndent = beauty.currentIndent
             /\ IsFenceLine(text[beauty.i + 1]) =>
                    beauty'.currentIndent = beauty.currentIndent
       /\ (pc = "beautifyDocument3" /\ beauty3.i < Len(text)) =>
             /\ InsideBlock(text, beauty3.i) =>
                    /\ beauty3'.result = Append(beauty3.result, text[beauty3.i + 1])
                    /\ beauty3'.depth = beauty3.depth
             /\ IsFenceLine(text[beauty3.i + 1]) =>
                    beauty3'.depth = beauty3.depth]_vars

\* A fence, an indented opening tag and a fence: the tag line was emitted as
\* it was and the depth is 0 after the block.
C31_TagInsideBlockKept ==
    /\ pc = "beautifyDocument3"
    /\ text = << BacktickFence, IndentedOpenA, BacktickFence >>
    /\ beauty3.i = 3
    /\ beauty3.depth = 0
    /\ beauty3.result = text

(***************************************************************************)
(* parseAttributes on attribute texts: each attribute follows one space;   *)
(* well-formed attributes of the three value forms, an attribute whose     *)
(* quoted value is not terminated, and a stray =.                          *)
(***************************************************************************)
DoubleAttr == <<" ", "k", "=", DQ, "v", DQ>>
SingleAttr == <<" ", "a", "=", SQ, "b", SQ>>
BareAttr == <<" ", "x", "=", "1">>
OpenQuoteAttr == <<" ", "t", "=", DQ, "h">>
StrayEquals == <<" ", "=">>

\* The attributes of a tag one after the other.
RECURSIVE Flatten(_)
Flatten(ss) == IF ss = << >> THEN << >> ELSE Head(ss) \o Flatten(Tail(ss))

MaxAttrs == 3
AttrCatalog == {DoubleAttr, SingleAttr, BareAttr, OpenQuoteAttr, StrayEquals}
AttrStrings == {Flatten(d) : d \in UNION {[1..n -> AttrCatalog] : n \in 0..MaxAttrs}}

\* const attributes = parseAttributes(match[2] || '')
ParseAttributes ==
    /\ pc = "parseAttributes"
    /\ attributes' = parseAttributes(attrString)
    /\ pc' = "parsedAttributes"
    /\ UNCHANGED attrString
    /\ UNCHANGED previewVars
    /\ UNCHANGED maskVars
    /\ UNCHANGED docVars
    /\ UNCHANGED editorVars

InitAttrs ==
    /\ pc = "parseAttributes"
    /\ attrString \in AttrStrings
    /\ text = << >>
    /\ line = << >>
    /\ maskOut = NoMask
    /\ unmasked = << >>
    /\ NoCalls

NextAttrs == ParseAttributes

SpecAttrs == InitAttrs /\ [][NextAttrs]_vars

\* The attributes of a text, each from its space to the next space.
RECURSIVE AttrTokens(_)
AttrTokens(s) ==
    IF s = << >> THEN << >>
    ELSE LET S == {j \in 2..Len(s) : s[j] = " "}
             e == IF S = {} THEN Len(s) ELSE Least(S) - 1
         IN  << SubSeq(s, 2, e) >> \o AttrTokens(SubSeq(s, e + 1, Len(s)))

\* A well-formed attribute: a name, =, and a value between two double
\* quotes, between two single quotes, or without any quote.
WellFormedAttr(t) ==
    LET E == {j \in 1..Len(t) : t[j] = "="}
        eq == Least(E)
        v == SubSeq(t, eq + 1, Len(t))
    IN  /\ E # {}
        /\ eq > 1
        /\ t[1] \in NameStart
        /\ \A j \in 2..(eq - 1) : t[j] \in NameChar
        /\ \/ /\ Len(v) >= 2 /\ v[1] = DQ /\ v[Len(v)] = DQ
              /\ \A j \in 2..(Len(v) - 1) : v[j] # DQ
           \/ /\ Len(v) >= 2 /\ v[1] = SQ /\ v[Len(v)] = SQ
              /\ \A j \in 2..(Len(v) - 1) : v[j] # SQ
           \/ /\ Len(v) >= 1
              /\ \A j \in 1..Len(v) : v[j] \notin {DQ, SQ, ">"}

AttrKey(t) == SubSeq(t, 1, Least({j \in 1..Len(t) : t[j] = "="}) - 1)
AttrText(t) ==
    LET v == SubSeq(t, Least({j \in 1..Len(t) : t[j] = "="}) + 1, Len(t))
    IN  IF v[1] \in {DQ, SQ} THEN SubSeq(v, 2, Len(v) - 1) ELSE v

\* C32: the map parseAttributes returns has the value of every well-formed
\* attribute of the text under its name, and no entry for an attribute that
\* is not well-formed (an unterminated quoted value, a stray =).
C32_MalformedDropped ==
    pc = "parsedAttributes" =>
        LET ts == AttrTokens(attrString)
        IN  /\ \A j \in 1..Len(ts) :
                   WellFormedAttr(ts[j]) =>
                       \E e \in 1..Len(attributes) :
                           /\ attributes[e].key = AttrKey(ts[j])
                           /\ attributes[e].value = AttrText(ts[j])
            /\ \A e \in 1..Len(attributes) :
                   \E j \in 1..Len(ts) :
                       WellFormedAttr(ts[j]) /\ attributes[e].key = AttrKey(ts[j])

\* C33: in the depth resolution of convertToMarkdown (part_000) currentDepth
\* is the number of entries on tagStack before and after every step, and a
\* closing tag that removes an entry lowers the depth by exactly one, so the
\* clamp at 0 never takes effect.
C33_DepthIsStackSize ==
    [][/\ conv.currentDepth = Len(conv.tagStack)
       /\ conv'.currentDepth = Len(conv'.tagStack)
       /\ ConvResolving =>
             LET tag == conv.structure.xmlTags[conv.k + 1]
             IN  (tag.isClosing /\ Len(conv'.tagStack) < Len(conv.tagStack)
                  /\ ~RuleBetween(conv.structure.horizontalRules, conv.tagStack, tag))
                     => conv'.currentDepth = conv.currentDepth - 1]_vars

\* Two opening tags, a rule and a closing tag: the stack was emptied at the
\* rule and the depth is 0 with it.
C33_BothResetAtRule ==
    /\ pc = "resolve"
    /\ text = << OpenA, OpenB, Rule, CloseA >>
    /\ conv.k = 3
    /\ conv.tagStack = << >>
    /\ conv.currentDepth = 0

(***************************************************************************)
(* convertToMarkdown of src/extension.ts to its return, on documents with  *)
(* fence lines that are bare, end in a space, or carry an info string with *)
(* or without a space in it, and with tag and text lines.                  *)
(***************************************************************************)
ExtRewriteLine ==
    /\ pc \in {"extResolve", "extRewrite"}
    /\ ext.k = Len(ext.structure.xmlTags)
    /\ ext.i < Len(text)
    /\ ext' = ExtRewriteLineStep(ext, text)
    /\ pc' = "extRewrite"
    /\ UNCHANGED <<text, parse, extParse, conv, fold, claude, markdown>>
    /\ UNCHANGED maskVars
    /\ UNCHANGED attrVars
    /\ UNCHANGED previewVars
    /\ UNCHANGED editorVars

\* return result.join('\n')
ExtConvertReturn ==
    /\ pc \in {"extResolve", "extRewrite"}
    /\ ext.k = Len(ext.structure.xmlTags)
    /\ ext.i = Len(text)
    /\ markdown' = Join(ext.result)
    /\ pc' = "extDone"
    /\ UNCHANGED <<text, parse, extParse, conv, fold, claude, ext>>
    /\ UNCHANGED maskVars
    /\ UNCHANGED attrVars
    /\ UNCHANGED previewVars
    /\ UNCHANGED editorVars

TrailingSpaceFence == << BT, BT, BT, " " >>
SpacedInfoFence == << BT, BT, BT, "a", " ", "b" >>

MaxExtLines == 3
ExtCatalog ==
    {BacktickFence, TildeFence, InfoFence, TrailingSpaceFence, SpacedInfoFence,
     OpenA, InlineA, Plain}
ExtDocs == Docs(ExtCatalog, MaxExtLines)

InitExt ==
    /\ pc = "extConvertToMarkdown"
    /\ text \in ExtDocs
    /\ NoCalls
    /\ NoMaskCall

NextExt ==
    \/ ExtStart
    \/ ExtResolveTag
    \/ ExtRewriteLine
    \/ ExtConvertReturn

SpecExt == InitExt /\ [][NextExt]_vars

\* The locals of parseDocument after its first n lines.
RECURSIVE ExtParsedTo(_, _)
ExtParsedTo(lines, n) ==
    IF n = 0 THEN NewParse ELSE ExtParseLineStep(ExtParsedTo(lines, n - 1), lines)

\* C34: in src/extension.ts the in-code flag of convertToMarkdown after any
\* number of lines is the in-code flag parseDocument had after the same
\* lines, so the two treat the same lines as fences and as code content.
C34_SameCodeState ==
    pc = "extRewrite" => (ext.inCodeBlock <=> ExtParsedTo(text, ext.i).inCodeBlock)

(***************************************************************************)
(* The beautifiers on documents of up to four lines: an opening tag, its   *)
(* closing tag, a self-closing tag, text, a header and a fence.            *)
(***************************************************************************)
MaxNestLines == 4
NestCatalog == {OpenA, CloseA, SelfBSpace, Indented, HeaderH, BacktickFence}
NestDocs == Docs(NestCatalog, MaxNestLines)

InitNest ==
    /\ pc \in {"beautifyDocument", "beautifyDocument3"}
    /\ text \in NestDocs
    /\ NoCalls
    /\ NoMaskCall

NextNest ==
    \/ BeautifyLine
    \/ BeautifyReturn
    \/ Beautify3Line
    \/ Beautify3Return

SpecNest == InitNest /\ [][NextNest]_vars

\* Line n (from 1) is an opening, a closing tag line outside code blocks.
OpensAt(lines, n) == ~InCode(lines, n - 1) /\ IsOpeningLine(lines[n])
ClosesAt(lines, n) == ~InCode(lines, n - 1) /\ IsClosingLine(lines[n])

\* The name of the tag of an opening or closing tag line.
LineTagName(s) ==
    LET t == Trim(s)
        from == IF t[2] = "/" THEN 3 ELSE 2
        N == {j \in from..Len(t) : t[j] \notin NameChar}
    IN  SubSeq(t, from, Least(N) - 1)

\* Opening tag lines less closing tag lines among the first n lines.
NetDepth(lines, n) ==
    Cardinality({j \in 1..n : OpensAt(lines, j)}) - Cardinality({j \in 1..n : ClosesAt(lines, j)})

\* The opening tag line that the closing tag line c closes.
MatchOf(lines, c) ==
    Max({o \in 1..(c - 1) : OpensAt(lines, o) /\ NetDepth(lines, o - 1) = NetDepth(lines, c)})

\* Every tag stands alone on its line outside code blocks, tags are properly
\* nested and every opening tag has its closing tag.
TagsAloneAndNested(lines) ==
    /\ \A n \in 1..Len(lines) :
           \/ InCode(lines, n - 1)
           \/ IsOpeningLine(lines[n]) \/ IsClosingLine(lines[n]) \/ IsSelfClosingLine(lines[n])
           \/ \A j \in 1..Len(lines[n]) : lines[n][j] \notin {"<", ">"}
    /\ \A n \in 1..Len(lines) : NetDepth(lines, n) >= 0
    /\ NetDepth(lines, Len(lines)) = 0
    /\ \A c \in 1..Len(lines) :
           ClosesAt(lines, c) => LineTagName(lines[MatchOf(lines, c)]) = LineTagName(lines[c])

\* In the output each closing tag has the indentation of its opening tag and
\* every line between them a greater one, unless it is a header, a blank
\* line or lies in a code block.
PairsAligned(lines, out) ==
    \A c \in 1..Len(lines) :
        ClosesAt(lines, c) =>
            LET o == MatchOf(lines, c)
            IN  /\ LeadingWS(out[c]) = LeadingWS(out[o])
                /\ \A j \in (o + 1)..(c - 1) :
                       \/ IsHeaderLine(lines[j])
                       \/ Trim(lines[j]) = << >>
                       \/ InsideBlock(lines, j - 1)
                       \/ LeadingWS(out[j]) > LeadingWS(out[o])

\* C35: on a document whose tags stand alone on their lines outside code
\* blocks, are properly nested and are all closed, both variants of
\* beautifyDocument end with depth 0 and with every closing tag indented as
\* its opening tag and the lines between them indented more, headers, blank
\* lines and code-block content aside.
C35_NestedPairsAligned ==
    /\ (pc = "beautifyDocument" /\ beauty.i = Len(text) /\ TagsAloneAndNested(text)) =>
           beauty.currentIndent = 0 /\ PairsAligned(text, beauty.result)
    /\ (pc = "beautifyDocument3" /\ beauty3.i = Len(text) /\ TagsAloneAndNested(text)) =>
           beauty3.depth = 0 /\ PairsAligned(text, beauty3.result)

(***************************************************************************)
(* convertClaudeMdToMarkdown on documents whose closing tags stand alone   *)
(* or after text on their line.                                            *)
(***************************************************************************)
OpenAText == <<"<", "a", ">", "x">>
TextCloseA == <<"x", "<", "/", "a", ">">>

MaxCloserLines == 3
CloserCatalog == {OpenA, OpenAText, CloseA, TextCloseA, Plain, BacktickFence}
CloserDocs == Docs(CloserCatalog, MaxCloserLines)

InitClosers ==
    /\ pc = "convertClaudeMdToMarkdown"
    /\ text \in CloserDocs
    /\ NoCalls
    /\ NoMaskCall

NextClosers == ClaudeLine \/ ClaudeReturn

SpecClosers == InitClosers /\ [][NextClosers]_vars

\* The locals of convertClaudeMdToMarkdown after its first n lines.
RECURSIVE ClaudeTo(_, _)
ClaudeTo(lines, n) ==
    IF n = 0 THEN NewClaude ELSE ClaudeLineStep(ClaudeTo(lines, n - 1), lines)

\* Line n (from 1) pushed an entry on tagStack.
PushedAt(lines, n) == Len(ClaudeTo(lines, n).tagStack) > Len(ClaudeTo(lines, n - 1).tagStack)
PushedName(lines, n) == ClaudeTo(lines, n).tagStack[Len(ClaudeTo(lines, n).tagStack)].name

\* Line n (from 1), outside code blocks, holds a closing tag of the name.
HoldsCloser(lines, n, name) ==
    /\ ~StrictInCode(lines, n - 1)
    /\ \E j \in 1..Len(lines[n]) :
           /\ j + Len(name) + 2 <= Len(lines[n])
           /\ SubSeq(lines[n], j, j + Len(name) + 2) = <<"<", "/">> \o name \o <<">">>

\* Every pushed opening tag has a closing tag of its name of its own on a
\* later line: after each of them lie at least as many closing-tag lines of
\* the name as there are pushed openings of the name from it on.
EveryPushClosed(lines) ==
    \A n \in 1..Len(lines) :
        PushedAt(lines, n) =>
            Cardinality({m \in (n + 1)..Len(lines) : HoldsCloser(lines, m, PushedName(lines, n))})
                >= Cardinality({m \in n..Len(lines) :
                                    PushedAt(lines, m) /\ PushedName(lines, m) = PushedName(lines, n)})

\* C36: when every opening tag convertClaudeMdToMarkdown pushed is followed
\* outside code blocks by a closing tag of its name, alone on its line or
\* after other text, tagStack is empty after the last line.
C36_StackEmptyAtEnd ==
    (pc = "convertClaudeMdToMarkdown" /\ claude.i = Len(text) /\ EveryPushClosed(text))
        => claude.tagStack = << >>

(***************************************************************************)
(* showPreview, its change listener and deactivate (part_000, first and    *)
(* third variant).  showPreview is async: the action up to its await and   *)
(* the action after it are separate steps, and change events and other     *)
(* showPreview calls fall between them.                                    *)
(***************************************************************************)
MaxPreviews == 3

\* convertToMarkdown(document.getText()) of the first variant, start to return.
RECURSIVE ResolveAll(_)
ResolveAll(st) ==
    IF st.k < Len(st.structure.xmlTags) THEN ResolveAll(ResolveTagStep(st)) ELSE st

RECURSIVE RewriteTo(_, _)
RewriteTo(lines, n) ==
    IF n = 0
    THEN ResolveAll([NewConvert EXCEPT !.structure = parseDocumentText(lines)])
    ELSE RewriteLineStep(RewriteTo(lines, n - 1), lines)

convertToMarkdown(lines) == Join(RewriteTo(lines, Len(lines)).result)

\* convertClaudeMdToMarkdown(document.getText()) of the third variant.
convertClaudeMdToMarkdown(lines) == Join(ClaudeTo(lines, Len(lines)).output)

\* The other text of the document: what an edit makes of it.
Edited(document) ==
    IF documents[document] = DocumentTexts(document)[1]
    THEN DocumentTexts(document)[2]
    ELSE DocumentTexts(document)[1]

Without(s, k) == SubSeq(s, 1, k - 1) \o SubSeq(s, k + 1, Len(s))

\* The registrations whose listener was not disposed.
ActiveListeners == {k \in 1..Len(subscriptions) : ~subscriptions[k].disposed}

\* fs.writeFileSync(tempFilePath, content)
WriteFileSync(path, content) == [files EXCEPT ![path] = content]

\* First variant, up to the first await: the document of the active editor is
\* converted, tempFilePath is set and the file written.
ShowPreview ==
    /\ pc = "activated"
    /\ Len(subscriptions) + Len(previews) < MaxPreviews
    /\ \E document \in Documents :
          /\ tempFilePath' = PreviewPath(document)
          /\ files' = WriteFileSync(PreviewPath(document), convertToMarkdown(documents[document]))
          /\ previews' = Append(previews, [document |-> document])
    /\ UNCHANGED <<pc, documents, documentChangeListener, subscriptions>>
    /\ UNCHANGED maskVars
    /\ UNCHANGED attrVars
    /\ UNCHANGED docVars
    /\ UNCHANGED editorVars

\* First variant, after the awaits: the change listener is registered and
\* pushed to context.subscriptions.
ShowPreviewResume ==
    /\ pc = "activated"
    /\ \E k \in 1..Len(previews) :
          /\ subscriptions' = Append(subscriptions,
                                     [document |-> previews[k].document, disposed |-> FALSE])
          /\ previews' = Without(previews, k)
    /\ UNCHANGED <<pc, documents, tempFilePath, documentChangeListener, files>>
    /\ UNCHANGED maskVars
    /\ UNCHANGED attrVars
    /\ UNCHANGED docVars
    /\ UNCHANGED editorVars

\* onDidChangeTextDocument: a document is edited and every listener that is
\* not disposed runs: if (event.document === document && tempFilePath) the
\* conversion of the document is written to the file at tempFilePath.
ChangeListenerStep(document, updatedContent) ==
    /\ documents' = [documents EXCEPT ![document] = Edited(document)]
    /\ files' = IF /\ \E k \in ActiveListeners : subscriptions[k].document = document
                   /\ tempFilePath # Undefined
                THEN WriteFileSync(tempFilePath, updatedContent)
                ELSE files

ChangeListener ==
    /\ pc = "activated"
    /\ \E document \in Documents : ChangeListenerStep(document, convertToMarkdown(Edited(document)))
    /\ UNCHANGED <<pc, tempFilePath, documentChangeListener, subscriptions, previews>>
    /\ UNCHANGED maskVars
    /\ UNCHANGED attrVars
    /\ UNCHANGED docVars
    /\ UNCHANGED editorVars

\* deactivate: the file at tempFilePath is unlinked if it exists; the editor
\* disposes what is in context.subscriptions.
Unlinked ==
    IF tempFilePath # Undefined THEN WriteFileSync(tempFilePath, NoFile) ELSE files

Deactivate ==
    /\ pc = "activated"
    /\ files' = Unlinked
    /\ subscriptions' = [k \in 1..Len(subscriptions) |->
                             [subscriptions[k] EXCEPT !.disposed = TRUE]]
    /\ pc' = "deactivated"
    /\ UNCHANGED <<documents, tempFilePath, documentChangeListener, previews>>
    /\ UNCHANGED maskVars
    /\ UNCHANGED attrVars
    /\ UNCHANGED docVars
    /\ UNCHANGED editorVars

\* Third variant, up to the await of markdown.showPreviewToSide.
ShowPreview3 ==
    /\ pc = "activated3"
    /\ Len(subscriptions) + Len(previews) < MaxPreviews
    /\ \E document \in Documents :
          /\ tempFilePath' = PreviewPath(document)
          /\ files' = WriteFileSync(PreviewPath(document),
                                    convertClaudeMdToMarkdown(documents[document]))
          /\ previews' = Append(previews, [document |-> document])
    /\ UNCHANGED <<pc, documents, documentChangeListener, subscriptions>>
    /\ UNCHANGED maskVars
    /\ UNCHANGED attrVars
    /\ UNCHANGED docVars
    /\ UNCHANGED editorVars

\* if (documentChangeListener) documentChangeListener.dispose()
Disposed ==
    IF documentChangeListener = Undefined
    THEN subscriptions
    ELSE [subscriptions EXCEPT ![documentChangeListener[1]].disposed = TRUE]

\* Third variant, after the await: the listener documentChangeListener names
\* is disposed, then the new one is registered, kept in
\* documentChangeListener and pushed to context.subscriptions.
ShowPreview3ResumeStep(k) ==
    /\ subscriptions' = Append(Disposed, [document |-> previews[k].document, disposed |-> FALSE])
    /\ documentChangeListener' = <<Len(subscriptions) + 1>>
    /\ previews' = Without(previews, k)

ShowPreview3Resume ==
    /\ pc = "activated3"
    /\ \E k \in 1..Len(previews) : ShowPreview3ResumeStep(k)
    /\ UNCHANGED <<pc, documents, tempFilePath, files>>
    /\ UNCHANGED maskVars
    /\ UNCHANGED attrVars
    /\ UNCHANGED docVars
    /\ UNCHANGED editorVars

ChangeListener3 ==
    /\ pc = "activated3"
    /\ \E document \in Documents : ChangeListenerStep(document, convertClaudeMdToMarkdown(Edited(document)))
    /\ UNCHANGED <<pc, tempFilePath, documentChangeListener, subscriptions, previews>>
    /\ UNCHANGED maskVars
    /\ UNCHANGED attrVars
    /\ UNCHANGED docVars
    /\ UNCHANGED editorVars

\* Third variant's deactivate: unlink, then documentChangeListener.dispose().
Deactivate3 ==
    /\ pc = "activated3"
    /\ files' = Unlinked
    /\ subscriptions' = [k \in 1..Len(subscriptions) |->
                             [subscriptions[k] EXCEPT !.disposed = TRUE]]
    /\ pc' = "deactivated"
    /\ UNCHANGED <<documents, tempFilePath, documentChangeListener, previews>>
    /\ UNCHANGED maskVars
    /\ UNCHANGED attrVars
    /\ UNCHANGED docVars
    /\ UNCHANGED editorVars

InitPreview ==
    /\ pc \in {"activated", "activated3"}
    /\ text = << >>
    /\ NoCalls
    /\ NoMaskCall

NextPreview ==
    \/ ShowPreview
    \/ ShowPreviewResume
    \/ ChangeListener
    \/ Deactivate
    \/ ShowPreview3
    \/ ShowPreview3Resume
    \/ ChangeListener3
    \/ Deactivate3

SpecPreview == InitPreview /\ [][NextPreview]_vars

\* What convertToMarkdown makes of the texts the document takes.
ConversionsOf(document) ==
    {convertToMarkdown(DocumentTexts(document)[v]) : v \in 1..Len(DocumentTexts(document))}

\* C37: in the third variant at most one listener showPreview registered is
\* active at any time, and a change to a document never writes the preview
\* file once tempFilePath names the preview file of another document.
C37_OneListenerNoCrossWrite ==
    [][pc = "activated3" =>
          /\ Cardinality(ActiveListeners') <= 1
          /\ \A document \in Documents :
                 (/\ documents'[document] # documents[document]
                  /\ tempFilePath # Undefined
                  /\ tempFilePath # PreviewPath(document))
                 => files' = files]_vars

\* The part of C37 about the number of listeners alone.
AtMostOneListener == pc \in {"activated3", "deactivated"} => Cardinality(ActiveListeners) <= 1

\* C38: in the first variant the file at tempFilePath holds a conversion of
\* the document the file was created for, whatever the order of preview
\* calls and change events.
C38_FileHoldsItsDocument ==
    (pc = "activated" /\ tempFilePath # Undefined)
    => files[tempFilePath] \in ConversionsOf(tempFilePath[1])

=============================================================================
